---- MODULE Spec2Model ----
(***************************************************************************)
(* Model of the video-processing core of FINAL/src: the frame buffer and   *)
(* writer (storage/writer.py), the result collectors (frame_collector.py,  *)
(* server.py get_celery_results), the worker task (worker.py) and the      *)
(* per-connection session handler (server.py ClientHandler.handle).        *)
(***************************************************************************)
EXTENDS Integers, Sequences, FiniteSets, TLC

\* ------------------------------------------------------------------ bounds
MaxFrames == 3      \* frame indices range over 0..MaxFrames-1, totals over 0..MaxFrames
MaxOps == 3         \* calls made on one VideoFrameBuffer
MaxData == 0        \* distinct frame contents 0..MaxData offered to add_frame
MaxReq == 2         \* frames asked of a collector in one call
PollLimit == 1      \* polls one wait makes before its deadline (timeout / poll interval)
MaxTasks == 2       \* results handed to _process_results_sync in one call
MaxDecoded == 2     \* frames the decoder yields for a short upload
MaxFailed == 1      \* frames of one session whose artifacts go wrong

\* ------------------------------------------------------------------ frames
\* A decoded frame: numpy shape (height, width) and its content.  kind "zero"
\* is an all-zero array; "orig" a decoded source frame; "proc" a filtered one.
Shapes == {<<1, 2>>, <<2, 1>>}
Sizes == {<<2, 1>>}
MkFrame(shape, kind, id) == [shape |-> shape, kind |-> kind, id |-> id]
\* np.zeros((h, w, 3), dtype=np.uint8)
Zeros(h, w) == MkFrame(<<h, w>>, "zero", 0)
\* cv2.resize(frame, (width, height)): same content, new geometry
Resize(frame, size) == [frame EXCEPT !.shape = <<size[2], size[1]>>]

VARIABLES
    vfb,        \* the VideoFrameBuffer with its VideoWriter
    ret,        \* value returned by the last add_frame / flush_remaining
    hist,       \* the calls made on the buffer so far
    cvOpens,    \* environment: cv2.VideoWriter(...).isOpened()
    cvRaises,   \* environment: frame contents on which cv2 write raises
    mode,           \* which collector runs: "collector" or "gather"
    frame_numbers,  \* frame numbers asked for (the tasks' numbers in gather mode)
    callback,       \* collect_frames_parallel's callback: "none", "ok" or "raises"
    disk,           \* artifact directory: per frame number, how far the worker got
    waited,         \* per position, polls that found nothing
    fut,            \* per position, Pending or the outcome of its wait
    results_dict,   \* collect_frames_parallel's dict, in insertion order
    order,          \* positions in the order their waits completed
    returned,       \* the list handed back to the caller
    done,           \* whether the collector has returned
    w_decodable,    \* worker: whether cv2.imdecode(frame_data) yields a frame
    w_retries,      \* worker: self.request.retries of the current attempt
    w_png,          \* worker: frame_{n:06d}.png in the session directory
    w_json,         \* worker: frame_{n:06d}.json in the session directory
    w_status,       \* worker: "queued", "succeeded" or "failed" (permanently)
    w_result,       \* worker: what the task returned
    w_log,          \* worker: how each attempt ended
    pc,             \* session: where ClientHandler.handle stands
    first_msg,      \* session: what the peer sends first
    conn_up,        \* session: FALSE once the transport has lost the connection
    sent,           \* session: what handle has written to its StreamWriter, in order
    closed,         \* session: writer.close() has run
    redis_up,       \* session: redis_client is not None
    store,          \* session: the Redis keys session:{id}:*, each [val, ttl]
    video,          \* session: the uploaded file as the decoder sees it
    queue,          \* session: units of work published on the 'frames' queue
    tasks,          \* session: the (frame_number, task) list of the dispatch
    original_frames,\* session: frame_number -> decoded source frame
    video_props,    \* session: fps / total_frames / width / height of the capture
    all_results,    \* session: what get_celery_results returned
    files,          \* session: frame number -> the PNG found at encode time
    metrics,        \* session: the processor's MetricsCollector
    records,        \* session: the record_frame calls made, in order
    result,         \* session: the dict process_results returned
    out_file,       \* session: bytes of output_{id}.mp4, or NoFile
    client,         \* session: the VideoClient reading the server's stream
    handshake,      \* session: what _recv_message returned for the first message
    raised,         \* session: the exceptions that reached handle's except block
    redis_raised,   \* session: a Redis call of this session raised
    mc,             \* threads: a MetricsCollector shared by the threads
    mlock,          \* threads: holder of mc.lock (threading.Lock), 0 when free
    mth,            \* threads: per thread, the call it is in and where it stands
    mdone,          \* threads: record_frame calls completed since the last reset
    mleft,          \* threads: calls that may still be started
    sse_status,     \* preview: session:{id}:status as Redis holds it, or "absent"
    sse_pc,         \* preview: where the generator of /session/{id}/stream stands
    sse_out,        \* preview: the status of each event the generator has yielded
    fn_arg,         \* functions: the input a function under check is applied to
    fn_out,         \* functions: what it returned or raised, <<>> before the call
    ev_owner,       \* event loop: the session whose code the loop thread runs, 0 at the selector
    ev_pc,          \* event loop: per session, where its handle coroutine is suspended
    ev_ready,       \* event loop: per session, whether its workers' artifacts are on disk
    ev_polls,       \* event loop: per session, polls of wait_for_frame that found nothing
    ev_after,       \* event loop: per session, the sessions that were awaiting when it was accepted
    u_cpc,          \* upload: where send_video of the client stands
    u_spc,          \* upload: where handle of the server stands
    u_left,         \* upload: bytes of the video file the client has not sent yet
    u_c2s,          \* upload: what the client wrote and the server has not read yet
    u_s2c,          \* upload: what the server wrote and the client has not read yet
    u_got,          \* upload: video bytes the server has read
    a_clock,        \* artifacts: the number of dispatches begun so far
    a_sess,         \* artifacts: per session, its id, step, dispatch time and collection
    a_dir,          \* artifacts: per session id, the frames directory: index -> artifact
    a_queue,        \* artifacts: the units of work on the 'frames' queue
    t_gen,          \* TP1: the sample and the pipe the generator writes next
    t_pipe,         \* TP1: per analyzer, the bytes written to its pipe and not read yet
    t_queue,        \* TP1: per analyzer, its result queue
    t_log,          \* TP1: per analyzer, how each of its reads ended
    t_ver,          \* TP1: the verifier: step, timestamp and results being assembled
    t_chain         \* TP1: the blocks appended to the chain

bufVars == <<vfb, ret, hist, cvOpens, cvRaises>>
colVars == <<mode, frame_numbers, callback, disk, waited, fut, results_dict, order,
             returned, done>>
wkVars == <<w_decodable, w_retries, w_png, w_json, w_status, w_result, w_log>>
connVars == <<first_msg, conn_up, sent, closed, client, handshake, raised>>
pipeVars == <<video, queue, tasks, original_frames, video_props, all_results, files,
              metrics, records, result, out_file>>
sessVars == <<pc, connVars, redis_up, store, redis_raised, pipeVars>>
metVars == <<mc, mlock, mth, mdone, mleft>>
sseVars == <<sse_status, sse_pc, sse_out>>
funVars == <<fn_arg, fn_out>>
evVars == <<ev_owner, ev_pc, ev_ready, ev_polls, ev_after>>
upVars == <<u_cpc, u_spc, u_left, u_c2s, u_s2c, u_got>>
dirVars == <<a_clock, a_sess, a_dir, a_queue>>
tpVars == <<t_gen, t_pipe, t_queue, t_log, t_ver, t_chain>>
moreVars == <<upVars, dirVars, tpVars>>
extVars == <<sseVars, funVars, evVars, moreVars>>
vars == <<bufVars, colVars, wkVars, sessVars, metVars, extVars>>
\* what the actions of one component leave alone
notBuf == <<colVars, wkVars, sessVars, metVars, extVars>>
notCol == <<bufVars, wkVars, sessVars, metVars, extVars>>
notWk == <<bufVars, colVars, sessVars, metVars, extVars>>
notSess == <<colVars, wkVars, metVars, extVars>>
notMet == <<bufVars, colVars, wkVars, sessVars, extVars>>
coreVars == <<bufVars, colVars, wkVars, sessVars, metVars>>
notSse == <<coreVars, funVars, evVars, moreVars>>
notFun == <<coreVars, sseVars, evVars, moreVars>>
notEv == <<coreVars, sseVars, funVars, moreVars>>
notUp == <<coreVars, sseVars, funVars, evVars, dirVars, tpVars>>
notDir == <<coreVars, sseVars, funVars, evVars, upVars, tpVars>>
notTp == <<coreVars, sseVars, funVars, evVars, upVars, dirVars>>

\* a component that is not part of the specification being checked
IdleBuf ==
    /\ vfb = <<>> /\ ret = 0 /\ hist = <<>> /\ cvOpens = TRUE /\ cvRaises = {}
IdleCol ==
    /\ mode = "off" /\ frame_numbers = <<>> /\ callback = "none" /\ disk = <<>>
    /\ waited = <<>> /\ fut = <<>> /\ results_dict = <<>> /\ order = <<>>
    /\ returned = <<>> /\ done = FALSE
IdleWk ==
    /\ w_decodable = TRUE /\ w_retries = 0 /\ w_png = "absent" /\ w_json = "absent"
    /\ w_status = "off" /\ w_result = "none" /\ w_log = <<>>
IdleConn ==
    /\ first_msg = "none" /\ conn_up = TRUE /\ sent = <<>> /\ closed = FALSE
    /\ client = <<>> /\ handshake = "none" /\ raised = <<>>
IdleStore ==
    /\ redis_up = FALSE /\ store = <<>> /\ redis_raised = FALSE
IdlePipe ==
    /\ video = <<>> /\ queue = <<>> /\ tasks = <<>> /\ original_frames = <<>>
    /\ video_props = <<>> /\ all_results = <<>> /\ files = <<>> /\ metrics = <<>>
    /\ records = <<>> /\ result = <<>> /\ out_file = <<>>
IdleSess ==
    /\ pc = "off" /\ IdleConn /\ IdleStore /\ IdlePipe
IdleMet ==
    /\ mc = <<>> /\ mlock = 0 /\ mth = <<>> /\ mdone = 0 /\ mleft = 0
IdleSse ==
    /\ sse_status = "absent" /\ sse_pc = "off" /\ sse_out = <<>>
IdleFun ==
    /\ fn_arg = <<>> /\ fn_out = <<>>
IdleEv ==
    /\ ev_owner = 0 /\ ev_pc = <<>> /\ ev_ready = <<>> /\ ev_polls = <<>>
    /\ ev_after = <<>>
IdleUp ==
    /\ u_cpc = "off" /\ u_spc = "off" /\ u_left = 0 /\ u_c2s = <<>> /\ u_s2c = <<>>
    /\ u_got = 0
IdleDir ==
    /\ a_clock = 0 /\ a_sess = <<>> /\ a_dir = <<>> /\ a_queue = {}
IdleTp ==
    /\ t_gen = <<>> /\ t_pipe = <<>> /\ t_queue = <<>> /\ t_log = <<>> /\ t_ver = <<>>
    /\ t_chain = <<>>
IdleMore == IdleUp /\ IdleDir /\ IdleTp
IdleExt == IdleSse /\ IdleFun /\ IdleEv /\ IdleMore

\* ------------------------------------------------------------------ dict
\* Python dict as a sequence of <<key, value>> in insertion order
DictKeys(d) == {d[k][1] : k \in 1..Len(d)}
DictGet(d, key) == d[CHOOSE k \in 1..Len(d) : d[k][1] = key][2]
DictSet(d, key, val) ==
    IF key \in DictKeys(d)
    THEN [k \in 1..Len(d) |-> IF d[k][1] = key THEN <<key, val>> ELSE d[k]]
    ELSE Append(d, <<key, val>>)
\* d.pop(key)
DictPop(d, key) == SelectSeq(d, LAMBDA e : e[1] # key)

\* ------------------------------------------------------------------ VideoWriter
NewWriter(size) ==
    [frame_size |-> size, is_open |-> FALSE, frame_count |-> 0,
     file_created |-> FALSE, calls |-> <<>>, encoded |-> <<>>]

\* VideoWriter.open with frame_size already given
WriterOpen(w) ==
    IF w.is_open THEN w
    ELSE IF cvOpens THEN [w EXCEPT !.is_open = TRUE, !.file_created = TRUE] ELSE w

\* VideoWriter.write: auto-open, resize to frame_size, hand to the encoder
WriterWrite(w, frame) ==
    LET w1 == [w EXCEPT !.calls = Append(@, frame)]
        w2 == WriterOpen(w1)
        fr == IF <<frame.shape[2], frame.shape[1]>> # w.frame_size
              THEN Resize(frame, w.frame_size) ELSE frame
    IN  IF ~w2.is_open THEN w2
        ELSE IF fr.kind # "zero" /\ fr.id \in cvRaises THEN w2
        ELSE [w2 EXCEPT !.encoded = Append(@, fr), !.frame_count = @ + 1]

\* ------------------------------------------------------------------ VideoFrameBuffer
NewBuffer(writer) ==
    [writer |-> writer, buffer |-> <<>>, next_frame_number |-> 0]

\* a drain that writes whichever frame is buffered, not the next expected one
BadWriteConsecutive(st) ==
    IF DictKeys(st.b.buffer) # {}
    THEN LET k == CHOOSE j \in DictKeys(st.b.buffer) : TRUE
         IN [b |-> [writer |-> WriterWrite(st.b.writer, DictGet(st.b.buffer, k)),
                    buffer |-> DictPop(st.b.buffer, k),
                    next_frame_number |-> st.b.next_frame_number + 1],
             written |-> st.written + 1]
    ELSE st

\* the while loop of add_frame; st = [b |-> buffer object, written |-> count]
RECURSIVE WriteConsecutive(_)
WriteConsecutive(st) ==
    IF st.b.next_frame_number \in DictKeys(st.b.buffer)
    THEN WriteConsecutive(
           [b |-> [writer |-> WriterWrite(st.b.writer,
                                          DictGet(st.b.buffer, st.b.next_frame_number)),
                   buffer |-> DictPop(st.b.buffer, st.b.next_frame_number),
                   next_frame_number |-> st.b.next_frame_number + 1],
            written |-> st.written + 1])
    ELSE st

\* an add_frame that hands a frame numbered below the cursor straight to the writer
BadAddFrameOp(b, frame_number, frame) ==
    IF frame_number < b.next_frame_number
    THEN [b |-> [b EXCEPT !.writer = WriterWrite(@, frame)], written |-> 1]
    ELSE WriteConsecutive([b |-> [b EXCEPT !.buffer = DictSet(@, frame_number, frame)],
                           written |-> 0])
\* add_frame(frame_number, frame), run under self.lock
AddFrameOp(b, frame_number, frame) ==
    WriteConsecutive([b |-> [b EXCEPT !.buffer = DictSet(@, frame_number, frame)],
                      written |-> 0])

\* a flush that pads one black frame whenever frames are expected, wherever the
\* cursor stands
BadFlushLoop(st, total_frames) ==
    IF total_frames > 0
    THEN [b |-> [writer |-> WriterWrite(st.b.writer,
                                         Zeros(st.b.writer.frame_size[2],
                                               st.b.writer.frame_size[1])),
                 buffer |-> st.b.buffer,
                 next_frame_number |-> st.b.next_frame_number + 1],
          written |-> st.written + 1]
    ELSE st

\* flush_remaining(total_frames), run under self.lock
RECURSIVE FlushLoop(_, _)
FlushLoop(st, total_frames) ==
    IF st.b.next_frame_number < total_frames
    THEN LET n == st.b.next_frame_number
             present == n \in DictKeys(st.b.buffer)
             frame == IF present THEN DictGet(st.b.buffer, n)
                      ELSE Zeros(st.b.writer.frame_size[2], st.b.writer.frame_size[1])
         IN FlushLoop(
              [b |-> [writer |-> WriterWrite(st.b.writer, frame),
                      buffer |-> IF present THEN DictPop(st.b.buffer, n) ELSE st.b.buffer,
                      next_frame_number |-> n + 1],
               written |-> st.written + 1],
              total_frames)
    ELSE st

FlushRemainingOp(b, total_frames) == FlushLoop([b |-> b, written |-> 0], total_frames)

\* ------------------------------------------------------------------ buffer driver
BufFrames == {MkFrame(s, "proc", d) : s \in Shapes, d \in 0..MaxData}

InitBuf ==
    /\ cvOpens \in BOOLEAN
    /\ cvRaises \in {{}, {0}}
    /\ \E size \in Sizes : vfb = NewBuffer(NewWriter(size))
    /\ ret = 0
    /\ hist = <<>>
    /\ IdleCol /\ IdleWk /\ IdleSess /\ IdleMet /\ IdleExt

add_frame ==
    /\ Len(hist) < MaxOps
    /\ \E i \in 0..(MaxFrames - 1), f \in BufFrames :
         LET st == AddFrameOp(vfb, i, f)
         IN /\ vfb' = st.b
            /\ ret' = st.written
            /\ hist' = Append(hist, [op |-> "add", n |-> i, frame |-> f])
    /\ UNCHANGED <<cvOpens, cvRaises>>
    /\ UNCHANGED notBuf

flush_remaining ==
    /\ Len(hist) < MaxOps
    /\ \E total \in 0..MaxFrames :
         LET st == FlushRemainingOp(vfb, total)
         IN /\ vfb' = st.b
            /\ ret' = st.written
            /\ hist' = Append(hist, [op |-> "flush", n |-> total, frame |-> Zeros(0, 0)])
    /\ UNCHANGED <<cvOpens, cvRaises>>
    /\ UNCHANGED notBuf

NextBuf == add_frame \/ flush_remaining

SpecBuf == InitBuf /\ [][NextBuf]_vars

\* ------------------------------------------------------------------ claims on the buffer
AddsOnly(h) == \A k \in 1..Len(h) : h[k].op = "add"
DistinctAdds(h) ==
    \A j, k \in 1..Len(h) : (j # k /\ h[j].op = "add" /\ h[k].op = "add") => h[j].n # h[k].n
WasAdded(h, i) == \E k \in 1..Len(h) : h[k].op = "add" /\ h[k].n = i
AddedFrame(h, i) == h[CHOOSE k \in 1..Len(h) : h[k].op = "add" /\ h[k].n = i].frame
\* hist is distinct add_frame calls with indices below N followed by one flush_remaining(N)
AddsThenFlush(h) ==
    /\ Len(h) >= 1
    /\ h[Len(h)].op = "flush"
    /\ AddsOnly(SubSeq(h, 1, Len(h) - 1))
    /\ DistinctAdds(h)
    /\ \A k \in 1..(Len(h) - 1) : h[k].n < h[Len(h)].n

\* C1: after distinct add_frame calls with indices in 0..N-1 and flush_remaining(N)
\* the writer has received exactly N writes, the k-th carrying the frame added for
\* index k or a zero frame of the writer's frame size when k was never added; and
\* before the flush the writes are exactly the frames of 0..next_frame_number-1 in
\* ascending order.
C1_WritesInOrder ==
    LET calls == vfb.writer.calls
        size == vfb.writer.frame_size
    IN /\ (AddsOnly(hist) /\ DistinctAdds(hist)) =>
            /\ Len(calls) = vfb.next_frame_number
            /\ \A k \in 0..(vfb.next_frame_number - 1) :
                 WasAdded(hist, k) /\ calls[k + 1] = AddedFrame(hist, k)
       /\ AddsThenFlush(hist) =>
            /\ Len(calls) = hist[Len(hist)].n
            /\ vfb.next_frame_number = hist[Len(hist)].n
            /\ \A k \in 0..(hist[Len(hist)].n - 1) :
                 calls[k + 1] = IF WasAdded(hist, k) THEN AddedFrame(hist, k)
                                ELSE Zeros(size[2], size[1])

\* an out-of-order add was buffered, and the flush filled a gap with a zero frame
C1_Witness ==
    /\ AddsThenFlush(hist)
    /\ Len(hist) >= 2
    /\ hist[1].n > 0
    /\ ~WasAdded(hist, 0)
    /\ Len(vfb.writer.calls) >= 2
    /\ vfb.writer.calls[1].kind = "zero"
    /\ vfb.writer.calls[2].kind = "proc"

\* ------------------------------------------------------------------ result collectors
\* disk[n]: 0 nothing, 1 frame_n.png written, 2 frame_n.json opened for writing
\* (exists, does not parse yet), 3 frame_n.json complete (worker.py 166, 187-188)
Absent == 0
PngOnly == 1
JsonPartial == 2
Complete == 3

Pending == [kind |-> "pending", frame_number |-> -1, frame_path |-> -1, stats |-> "none"]
\* FrameResult(frame_number, frame_path, stats) / the dict wait_for_frame returns
FrameResult(n, path, stats) ==
    [kind |-> "result", frame_number |-> n, frame_path |-> path, stats |-> stats]
\* TimeoutError(f"Frame {n} no aparecio ...")
TimeoutError(n) ==
    [kind |-> "TimeoutError", frame_number |-> n, frame_path |-> -1, stats |-> "none"]
\* os.path.join(frames_dir, f'frame_{n:06d}.png'); None is -1
FramePath(n) == n
NoPath == -1

Min(S) == CHOOSE x \in S : \A y \in S : x <= y
\* the keys as the dict iterates them
InsertionOrder(S, d) == [k \in 1..Len(d) |-> d[k][1]]
\* sorted(results_dict.keys())
RECURSIVE SortedKeys(_, _)
SortedKeys(S, d) ==
    IF S = {} THEN <<>> ELSE <<Min(S)>> \o SortedKeys(S \ {Min(S)}, d)

InitCollect ==
    /\ mode \in {"collector", "gather"}
    /\ \E len \in 0..MaxReq :
         /\ mode = "collector" => frame_numbers \in [1..len -> 0..(MaxReq - 1)]
         \* tasks are appended as (0, t0), (1, t1), ... (server.py 115-116)
         /\ mode = "gather" => frame_numbers = [k \in 1..len |-> k - 1]
         /\ waited = [k \in 1..len |-> 0]
         /\ fut = [k \in 1..len |-> Pending]
    /\ callback \in (IF mode = "collector" THEN {"none", "ok", "raises"} ELSE {"none"})
    /\ disk = [n \in 0..(MaxReq - 1) |-> Absent]
    /\ results_dict = <<>>
    /\ order = <<>>
    /\ returned = <<>>
    /\ done = FALSE
    /\ IdleBuf /\ IdleWk /\ IdleSess /\ IdleMet /\ IdleExt

\* the worker of frame n writes its next file
WorkerWrites ==
    /\ ~done
    /\ \E n \in DOMAIN disk :
         /\ disk[n] < Complete
         /\ disk' = [disk EXCEPT ![n] = @ + 1]
    /\ UNCHANGED <<mode, frame_numbers, callback, waited, fut, results_dict, order,
                   returned, done>>
    /\ UNCHANGED notCol

\* a handling of the completed future that records nothing for a failed wait
BadOnCompleted(d, n, outcome) ==
    IF outcome.kind = "result" /\ callback # "raises" THEN DictSet(d, n, outcome) ELSE d

\* the body of "for future in as_completed(...)" for the wait at position k
OnCompleted(d, n, outcome) ==
    IF outcome.kind = "result" /\ callback # "raises"
    THEN DictSet(d, n, outcome)
    ELSE DictSet(d, n, FrameResult(n, NoPath, "error"))

\* one iteration of _poll_single_frame for position k, and, when it ends the
\* wait, the handling of the completed future
PollSingleFrame ==
    /\ mode = "collector" /\ ~done
    /\ \E k \in DOMAIN fut :
         LET n == frame_numbers[k] IN
         /\ fut[k] = Pending
         /\ IF waited[k] < PollLimit
            THEN IF disk[n] = Complete
                 THEN /\ fut' = [fut EXCEPT ![k] = FrameResult(n, FramePath(n), "json")]
                      /\ results_dict' = OnCompleted(results_dict, n, fut'[k])
                      /\ order' = Append(order, k)
                      /\ UNCHANGED waited
                 ELSE /\ waited' = [waited EXCEPT ![k] = @ + 1]
                      /\ UNCHANGED <<fut, results_dict, order>>
            ELSE /\ fut' = [fut EXCEPT ![k] = TimeoutError(n)]
                 /\ results_dict' = OnCompleted(results_dict, n, fut'[k])
                 /\ order' = Append(order, k)
                 /\ UNCHANGED waited
    /\ UNCHANGED <<mode, frame_numbers, callback, disk, returned, done>>
    /\ UNCHANGED notCol

\* return [results_dict[num] for num in sorted(results_dict.keys())]
CollectReturn ==
    /\ mode = "collector" /\ ~done
    /\ \A k \in DOMAIN fut : fut[k] # Pending
    /\ LET keys == SortedKeys(DictKeys(results_dict), results_dict)
       IN returned' = [k \in 1..Len(keys) |-> DictGet(results_dict, keys[k])]
    /\ done' = TRUE
    /\ UNCHANGED <<mode, frame_numbers, callback, disk, waited, fut, results_dict, order>>
    /\ UNCHANGED notCol

\* one iteration of wait_for_frame for the task at position k
WaitForFrame ==
    /\ mode = "gather" /\ ~done
    /\ \E k \in DOMAIN fut :
         LET n == frame_numbers[k] IN
         /\ fut[k] = Pending
         /\ IF waited[k] < PollLimit
            THEN IF disk[n] >= JsonPartial
                 THEN /\ fut' = [fut EXCEPT ![k] =
                            FrameResult(n, FramePath(n),
                                        IF disk[n] = Complete THEN "json" ELSE "default")]
                      /\ order' = Append(order, k)
                      /\ UNCHANGED waited
                 ELSE /\ waited' = [waited EXCEPT ![k] = @ + 1]
                      /\ UNCHANGED <<fut, order>>
            ELSE /\ fut' = [fut EXCEPT ![k] = TimeoutError(n)]
                 /\ order' = Append(order, k)
                 /\ UNCHANGED waited
    /\ UNCHANGED <<mode, frame_numbers, callback, disk, results_dict, returned, done>>
    /\ UNCHANGED notCol

\* asyncio.gather(*awaiting_coroutines, return_exceptions=True)
GatherResults(f) == [k \in DOMAIN f |-> f[k]]

GetCeleryResultsReturn ==
    /\ mode = "gather" /\ ~done
    /\ \A k \in DOMAIN fut : fut[k] # Pending
    /\ returned' = GatherResults(fut)
    /\ done' = TRUE
    /\ UNCHANGED <<mode, frame_numbers, callback, disk, waited, fut, results_dict, order>>
    /\ UNCHANGED notCol

NextCollect ==
    \/ WorkerWrites
    \/ PollSingleFrame
    \/ CollectReturn
    \/ WaitForFrame
    \/ GetCeleryResultsReturn

SpecCollect == InitCollect /\ [][NextCollect]_vars

\* C3: collect_frames_parallel returns its entries in ascending frame_number whatever
\* the order in which the polls completed, and get_celery_results returns one result
\* per task, result k being the one of tasks[k], whatever the order in which the
\* artifacts appeared.
C3_ResultsInIndexOrder ==
    done =>
      /\ mode = "collector" =>
           /\ \A j, k \in 1..Len(returned) :
                j < k => returned[j].frame_number < returned[k].frame_number
           /\ {returned[k].frame_number : k \in 1..Len(returned)}
                = {frame_numbers[k] : k \in 1..Len(frame_numbers)}
      /\ mode = "gather" =>
           /\ Len(returned) = Len(frame_numbers)
           /\ \A k \in 1..Len(returned) :
                /\ returned[k].kind \in {"result", "TimeoutError"}
                /\ returned[k].frame_number = frame_numbers[k]

\* the waits completed in an order that is not the order of the frame numbers
CompletedOutOfOrder ==
    \E j, k \in 1..Len(order) :
       j < k /\ frame_numbers[order[j]] > frame_numbers[order[k]]

C3_Witness ==
    /\ done
    /\ Len(returned) >= 2
    /\ CompletedOutOfOrder

\* ------------------------------------------------------------------ worker task
\* @app.task(bind=True, max_retries=3, ...)
max_retries == 3

\* how far the try block of one attempt gets
AttemptOutcomes(decodable) ==
    IF decodable
    THEN {"ok", "filter_raises", "imwrite_fails", "json_open_fails", "json_dump_fails"}
    ELSE {"decode_fails"}

\* the files the try block leaves behind: cv2.imwrite at line 166 comes before
\* open(stats_path, 'w') and json.dump at 187-188
PngAfterTry(png, outcome) ==
    IF outcome \in {"ok", "json_open_fails", "json_dump_fails"} THEN "processed" ELSE png
JsonAfterTry(json, outcome) ==
    CASE outcome = "ok" -> "stats"
      [] outcome = "json_dump_fails" -> "partial"
      [] OTHER -> json

\* the else branch of the except block: the original is decoded again and saved,
\* the imwrite result is not looked at, and the stats go into the return value only
PngAfterPermanentFailure(png, decodable, imwrite_ok) ==
    IF decodable /\ imwrite_ok THEN "original" ELSE png
JsonAfterPermanentFailure(json) == json

\* a test that lets the attempt numbered max_retries be retried too
BadShouldRetry(retries) == retries <= max_retries
\* if self.request.retries < self.max_retries
ShouldRetry(retries) == retries < max_retries

InitWorker ==
    /\ w_decodable \in BOOLEAN
    /\ w_retries = 0
    /\ w_png = "absent"
    /\ w_json = "absent"
    /\ w_status = "queued"
    /\ w_result = "none"
    /\ w_log = <<>>
    /\ IdleBuf /\ IdleCol /\ IdleSess /\ IdleMet /\ IdleExt

\* one execution of process_frame
process_frame ==
    /\ w_status = "queued"
    /\ \E outcome \in AttemptOutcomes(w_decodable), imwrite_ok \in BOOLEAN :
         LET png == PngAfterTry(w_png, outcome)
             json == JsonAfterTry(w_json, outcome)
         IN /\ w_log' = Append(w_log, outcome)
            /\ IF outcome = "ok"
               THEN /\ w_png' = png
                    /\ w_json' = json
                    /\ w_status' = "succeeded"
                    /\ w_result' = "stats"
                    /\ UNCHANGED w_retries
               ELSE IF ShouldRetry(w_retries)
               THEN \* raise self.retry(exc=e)
                    /\ w_png' = png
                    /\ w_json' = json
                    /\ w_retries' = w_retries + 1
                    /\ UNCHANGED <<w_status, w_result>>
               ELSE /\ w_png' = PngAfterPermanentFailure(png, w_decodable, imwrite_ok)
                    /\ w_json' = JsonAfterPermanentFailure(json)
                    /\ w_status' = "failed"
                    /\ w_result' = "error_stats"
                    /\ UNCHANGED w_retries
    /\ UNCHANGED w_decodable
    /\ UNCHANGED notWk

NextWorker == process_frame

SpecWorker == InitWorker /\ [][NextWorker]_vars

\* C5: when a process_frame task has finished, by success or by permanent failure,
\* the session directory holds both the PNG and the JSON of the frame; after a
\* permanent failure the PNG is the decoded original and the JSON stats record has
\* filter_applied = "error".
C5_BothArtifactsWritten ==
    /\ w_status = "succeeded" => (w_png = "processed" /\ w_json = "stats")
    /\ w_status = "failed" => (w_png = "original" /\ w_json = "error_stats")

\* C29: a task runs at most max_retries + 1 times; it takes the permanent-failure
\* path only when the attempt made with retries = max_retries fails, and no
\* attempt follows that one
C29_AtMostThreeRetries ==
    /\ w_retries <= max_retries
    /\ Len(w_log) <= max_retries + 1
    /\ w_status = "failed" =>
         /\ w_retries = max_retries
         /\ Len(w_log) = max_retries + 1
         /\ \A i \in 1..Len(w_log) : w_log[i] # "ok"
    /\ w_status = "queued" => Len(w_log) = w_retries

\* the fourth attempt has failed and the task has ended on the failure path
C29_Witness == w_status = "failed" /\ Len(w_log) = 4 /\ w_retries = 3

\* ------------------------------------------------------------------ MetricsCollector
NewMetrics ==
    [frames_processed |-> 0, frames_total |-> 0, frames_failed |-> 0,
     retries_count |-> 0, latencies |-> <<>>]

\* a record_frame that counts the frame as failed without looking at the flag
BadRecordFrame(m, processing_time_ms, failed) ==
    [m EXCEPT !.frames_processed = @ + 1, !.frames_failed = @ + 1]

\* MetricsCollector.record_frame (counters and latencies)
RecordFrame(m, processing_time_ms, failed) ==
    [m EXCEPT !.frames_processed = @ + 1,
              !.frames_failed = IF failed THEN @ + 1 ELSE @,
              !.latencies = IF failed THEN @ ELSE Append(@, processing_time_ms)]

\* MetricsCollector.get_summary, the counters of it
GetSummary(m) ==
    [total_frames |-> m.frames_total, frames_processed |-> m.frames_processed,
     frames_failed |-> m.frames_failed, retries |-> m.retries_count]

\* ------------------------------------------------------------------ _process_results_sync
\* original_frames.get(frame_num) with None as NoFrame
NoFrame == MkFrame(<<0, 0>>, "none", -1)
DictGetOrNone(d, key) == IF key \in DictKeys(d) THEN DictGet(d, key) ELSE NoFrame

\* stats.get("processing_time_ms", 0): the worker's JSON carries a time, the
\* defaults of wait_for_frame and an empty dict give 0
ProcessingTimeMs(stats) == IF stats = "json" THEN 1 ELSE 0

\* lines 207-239: the frame to write for one result, and whether it is a fallback.
\* fs[n] = [state, frame] is what os.path.exists / cv2.imread find at frame_path n
PickFrame(res, frame_num, originals, props, fs) ==
    LET orig == DictGetOrNone(originals, frame_num)
        first ==
          IF res.kind # "result"
          THEN [frame |-> orig, is_fallback |-> TRUE, stats |-> "none"]
          ELSE IF res.stats = "error"
          THEN [frame |-> orig, is_fallback |-> TRUE, stats |-> res.stats]
          ELSE IF res.frame_path # NoPath /\ fs[res.frame_path].state # "missing"
          THEN IF fs[res.frame_path].state = "unreadable"
               THEN [frame |-> orig, is_fallback |-> TRUE, stats |-> res.stats]
               ELSE [frame |-> fs[res.frame_path].frame, is_fallback |-> FALSE,
                     stats |-> res.stats]
          ELSE [frame |-> orig, is_fallback |-> TRUE, stats |-> res.stats]
    IN IF first.frame = NoFrame
       THEN [first EXCEPT !.frame = Zeros(props.height, props.width),
                          !.is_fallback = TRUE]
       ELSE first

\* the for loop over enumerate(all_results), from position st.i on
RECURSIVE ResultsLoop(_, _, _, _, _, _)
ResultsLoop(st, results, tsks, originals, props, fs) ==
    IF st.i > Len(results) THEN st
    ELSE LET frame_num == tsks[st.i].frame_number
             pick == PickFrame(results[st.i], frame_num, originals, props, fs)
         IN ResultsLoop(
              [i |-> st.i + 1,
               vfb |-> AddFrameOp(st.vfb, frame_num, pick.frame).b,
               metrics |-> RecordFrame(st.metrics, ProcessingTimeMs(pick.stats),
                                       pick.is_fallback),
               records |-> Append(st.records,
                                  [frame_num |-> frame_num, frame |-> pick.frame,
                                   failed |-> pick.is_fallback])],
              results, tsks, originals, props, fs)

\* VideoWriter.close
WriterClose(w) == [w EXCEPT !.is_open = FALSE]

\* _process_results_sync: the state it leaves and the dict it returns
ProcessResultsSync(results, tsks, originals, props, fs, m) ==
    LET writer == NewWriter(<<props.width, props.height>>)
        looped == ResultsLoop([i |-> 1, vfb |-> NewBuffer(writer), metrics |-> m,
                               records |-> <<>>],
                              results, tsks, originals, props, fs)
        flushed == FlushRemainingOp(looped.vfb, props.total_frames).b
    IN [vfb |-> [flushed EXCEPT !.writer = WriterClose(@)],
        metrics |-> looped.metrics,
        records |-> looped.records,
        result |-> [ok |-> TRUE, metrics |-> GetSummary(looped.metrics)]]

\* ------------------------------------------------------------------ _process_results_sync alone
ResultKinds(n) ==
    {TimeoutError(n), FrameResult(n, FramePath(n), "error"),
     FrameResult(n, FramePath(n), "json")}
FileStates(n, shape) ==
    {[state |-> st, frame |-> MkFrame(shape, "proc", n)] :
       st \in {"missing", "unreadable", "readable"}}
OrigFrame(n, shape) == MkFrame(shape, "orig", n)

InitResults ==
    /\ pc = "encoding"
    /\ IdleConn /\ IdleStore /\ IdleCol /\ IdleWk /\ IdleMet /\ IdleExt
    /\ cvOpens \in BOOLEAN /\ cvRaises \in {{}, {0}}
    /\ vfb = <<>> /\ ret = 0 /\ hist = <<>>
    /\ video = <<>> /\ queue = <<>> /\ out_file = <<>>
    /\ \E size \in Sizes, total \in 0..(MaxTasks + 1), T \in 0..MaxTasks :
         /\ video_props = [fps |-> 30, total_frames |-> total,
                           width |-> size[1], height |-> size[2]]
         /\ tasks = [k \in 1..T |-> [frame_number |-> k - 1, src |-> k - 1]]
         /\ \E keys \in SUBSET (0..(T - 1)) :
              original_frames =
                SelectSeq([k \in 1..T |-> <<k - 1, OrigFrame(k - 1, <<size[2], size[1]>>)>>],
                          LAMBDA e : e[1] \in keys)
         /\ all_results \in [1..T -> UNION {ResultKinds(n) : n \in 0..(T - 1)}]
         /\ \A k \in 1..T : all_results[k].frame_number = k - 1
         /\ files \in [0..(T - 1) -> UNION {FileStates(n, <<size[2], size[1]>>) : n \in 0..(T - 1)}]
         /\ \A n \in 0..(T - 1) : files[n].frame.id = n
         /\ metrics = [NewMetrics EXCEPT !.frames_total = total]
    /\ records = <<>>
    /\ result = <<>>

\* an encode step that starts while the waits for the frames are still pending
BadProcessResults ==
    /\ pc = "awaiting"
    /\ LET out == ProcessResultsSync(<<>>, tasks, original_frames, video_props,
                                     files, metrics)
       IN /\ vfb' = out.vfb
          /\ metrics' = out.metrics
          /\ records' = out.records
          /\ result' = out.result
    /\ pc' = "completed"
    /\ UNCHANGED <<ret, hist, cvOpens, cvRaises>>
    /\ UNCHANGED <<connVars, redis_up, store, redis_raised, video, queue, tasks,
                   original_frames, video_props, all_results, files, out_file>>
    /\ UNCHANGED notSess

\* loop.run_in_executor(None, self._process_results_sync, ...)
process_results ==
    /\ pc = "encoding"
    /\ LET out == ProcessResultsSync(all_results, tasks, original_frames, video_props,
                                     files, metrics)
       IN /\ vfb' = out.vfb
          /\ metrics' = out.metrics
          /\ records' = out.records
          /\ result' = out.result
    /\ pc' = "completed"
    /\ UNCHANGED <<ret, hist, cvOpens, cvRaises>>
    /\ UNCHANGED <<connVars, redis_up, store, redis_raised, video, queue, tasks,
                   original_frames, video_props, all_results, files, out_file>>
    /\ UNCHANGED notSess

NextResults == process_results

SpecResults == InitResults /\ [][NextResults]_vars

\* the result at position i calls for the fallback: an exception, stats with an
\* 'error' key, or a PNG that is missing or unreadable
NeedsFallback(i) ==
    \/ all_results[i].kind # "result"
    \/ all_results[i].stats = "error"
    \/ all_results[i].frame_path = NoPath
    \/ files[all_results[i].frame_path].state # "readable"

\* C4: in _process_results_sync every frame whose collection ended in an exception,
\* whose stats carry 'error' or whose PNG is missing or unreadable is replaced by the
\* original frame (a black frame when there is no original) and recorded failed=True;
\* the call returns ok=True with frames_processed = number of dispatched frames and
\* frames_failed = number of fallback frames.
C4_FallbackNotFatal ==
    pc = "completed" =>
      /\ result.ok = TRUE
      /\ Len(records) = Len(tasks)
      /\ result.metrics.frames_processed = Len(tasks)
      /\ result.metrics.frames_failed
           = Cardinality({i \in 1..Len(tasks) : records[i].failed})
      /\ \A i \in 1..Len(tasks) :
           LET n == tasks[i].frame_number IN
           /\ records[i].frame_num = n
           /\ NeedsFallback(i) =>
                /\ records[i].failed
                /\ records[i].frame =
                     IF n \in DictKeys(original_frames) THEN DictGet(original_frames, n)
                     ELSE Zeros(video_props.height, video_props.width)
           /\ ~NeedsFallback(i) =>
                /\ ~records[i].failed
                /\ records[i].frame = files[n].frame

\* a call in which one frame fell back to its original, one to a black frame and
\* none aborted the rest
C4_Witness ==
    /\ pc = "completed"
    /\ Len(tasks) >= 2
    /\ \E i, j \in 1..Len(tasks) :
         /\ records[i].failed /\ records[i].frame.kind = "orig"
         /\ records[j].failed /\ records[j].frame.kind = "zero"
    /\ result.metrics.frames_failed >= 2

\* ------------------------------------------------------------------ session: wire
\* messages.make_* (protocol/messages.py); size_bytes / frames_processed are 0
\* where the kind has no such field; ok is msg.get("ok"): only a result carries
\* the key, and _process_results_sync always returns "ok": True
Msg(type, code, size_bytes, frames_processed) ==
    [type |-> type, code |-> code, size_bytes |-> size_bytes,
     frames_processed |-> frames_processed, ok |-> (type = "result"),
     delivered |-> conn_up]
HandshakeAck == Msg("handshake_ack", "", 0, 0)
ErrorMsg(code) == Msg("error", code, 0, 0)
\* a result message that advertises the number of frames instead of the bytes
BadResultMsg(video_data, frame_count) == Msg("result", "", frame_count, 0)
\* make_result(ok, output_path, size_bytes=len(video_data), metrics)
ResultMsg(video_data, frame_count) == Msg("result", "", Len(video_data), 0)
\* self.writer.write(video_data): the raw bytes, outside the message framing
RawBytes(video_data) == Msg("raw", "", Len(video_data), 0)

\* the handshake test that only rejects a missing message
BadValidHandshake(h) == h # "none"
\* not (not handshake or handshake.get("type") != "handshake")
ValidHandshake(h) == h # "none" /\ h = "handshake"

\* _recv_message: None on a short read, a transport error or bad JSON
RecvMessage(msg, up) ==
    IF ~up \/ msg \in {"absent", "unparsable"} THEN "none" ELSE msg

\* ------------------------------------------------------------------ session: Redis
TTL == 3600
NoTTL == -1
SetOp(key, val) == [op |-> "set", key |-> key, val |-> val]
ExpireOp(key) == [op |-> "expire", key |-> key, val |-> TTL]

\* redis SET drops the expiry of the key, EXPIRE sets one on an existing key
ApplyOp(st, o) ==
    IF o.op = "set"
    THEN [k \in DOMAIN st \cup {o.key} |->
            IF k = o.key THEN [val |-> o.val, ttl |-> NoTTL] ELSE st[k]]
    ELSE [k \in DOMAIN st |-> IF k = o.key THEN [st[k] EXCEPT !.ttl = o.val] ELSE st[k]]

RECURSIVE ApplyOps(_, _, _)
ApplyOps(st, ops, n) ==
    IF n = 0 THEN st ELSE ApplyOp(ApplyOps(st, ops, n - 1), ops[n])

MetadataKeys ==
    <<"total_frames", "fps", "resolution", "status", "processing_type",
      "video_name", "start_time">>
\* lines 339-348: seven SETs, then EXPIRE on each of the seven keys
MetadataOps ==
    [k \in 1..Len(MetadataKeys) |->
       SetOp(MetadataKeys[k], IF MetadataKeys[k] = "status" THEN "processing" ELSE "meta")]
    \o [k \in 1..Len(MetadataKeys) |-> ExpireOp(MetadataKeys[k])]
\* lines 391-393
CompletedOps ==
    <<SetOp("status", "completed"), SetOp("end_time", "time"), ExpireOp("end_time")>>

\* ------------------------------------------------------------------ session: dispatch
ProgressEvery == 30
LongVideo == ProgressEvery + 1

\* an upload as the server meets it: whether cv2 opens it, the frame count of its
\* header, the frames the decoder yields, the decoder positions whose frame fails
\* to PNG-encode and those at which apply_async cannot reach the broker
Videos ==
    {[openable |-> FALSE, declared |-> 0, decoded |-> 0, encfail |-> {},
      pubfail |-> {}, size |-> s] : s \in Sizes}
    \cup {[openable |-> TRUE, declared |-> d, decoded |-> m, encfail |-> e,
           pubfail |-> {}, size |-> s] :
            m \in 0..MaxDecoded, d \in 0..(MaxDecoded + 1),
            e \in {{}} \cup {{q} : q \in 0..(MaxDecoded - 1)}, s \in Sizes}
    \cup {[openable |-> TRUE, declared |-> LongVideo, decoded |-> LongVideo,
           encfail |-> {}, pubfail |-> {}, size |-> s] : s \in Sizes}
    \cup {[openable |-> TRUE, declared |-> MaxDecoded, decoded |-> MaxDecoded,
           encfail |-> {}, pubfail |-> {q}, size |-> s] :
            q \in 0..(MaxDecoded - 1), s \in Sizes}

\* the while True loop of _extract_and_dispatch_frames_sync; st.pos is the
\* position of the decoder (cap.read)
RECURSIVE DispatchLoop(_, _)
DispatchLoop(v, st) ==
    IF st.pos >= v.decoded THEN st
    ELSE IF st.pos \in v.pubfail /\ st.pos \notin v.encfail
    THEN \* process_frame.apply_async raises; nothing catches it in the loop
         [st EXCEPT !.exc = "OperationalError",
                    !.original_frames =
                       DictSet(@, st.frame_number,
                               OrigFrame(st.pos, <<v.size[2], v.size[1]>>))]
    ELSE LET frame == OrigFrame(st.pos, <<v.size[2], v.size[1]>>)
             originals == DictSet(st.original_frames, st.frame_number, frame)
         IN IF st.pos \in v.encfail
            THEN \* imencode failed: continue, frame_number is not advanced
                 DispatchLoop(v, [st EXCEPT !.original_frames = originals,
                                            !.pos = @ + 1])
            ELSE DispatchLoop(v,
                   [pos |-> st.pos + 1, exc |-> st.exc,
                    tasks |-> Append(st.tasks,
                                     [frame_number |-> st.frame_number, src |-> st.pos]),
                    original_frames |-> originals,
                    frame_number |-> st.frame_number + 1])

ExtractAndDispatch(v) ==
    DispatchLoop(v, [pos |-> 0, exc |-> "none", tasks |-> <<>>,
                     original_frames |-> <<>>, frame_number |-> 0])

VideoProps(v) ==
    [fps |-> 30, total_frames |-> v.declared, width |-> v.size[1], height |-> v.size[2]]

\* ------------------------------------------------------------------ session: handle
storeVars == <<redis_up, store, redis_raised>>

\* "silent": the peer stays connected and sends nothing
FirstMessages ==
    {"handshake", "other_type", "unparsable", "absent", "non_object", "silent"}
\* wrote: the output file has been written; exit: the exit status, -1 while running
NewClient(role) ==
    [pc |-> role, pos |-> 0, size |-> 0, got |-> 0, ret |-> "none",
     wrote |-> FALSE, exit |-> -1]

InitSess ==
    /\ pc = "handshaking"
    /\ first_msg \in FirstMessages
    /\ conn_up = TRUE /\ sent = <<>> /\ closed = FALSE
    /\ client = NewClient(IF first_msg = "handshake" THEN "await_ack" ELSE "rogue")
    /\ handshake = "none" /\ raised = <<>>
    /\ redis_up \in BOOLEAN /\ store = <<>> /\ redis_raised = FALSE
    /\ IdlePipe
    /\ cvOpens \in BOOLEAN /\ cvRaises = {}
    /\ vfb = <<>> /\ ret = 0 /\ hist = <<>>
    /\ IdleCol /\ IdleWk /\ IdleMet /\ IdleExt

\* the peer resets the connection: later writes are dropped and drain() raises
ConnectionLost ==
    /\ pc \notin {"off", "done"} /\ conn_up
    /\ conn_up' = FALSE
    /\ UNCHANGED <<pc, first_msg, sent, closed, client, handshake, raised>>
    /\ UNCHANGED <<storeVars, pipeVars, bufVars, notSess>>

\* _send_message: writer.write, then drain, which raises on a lost connection
SendThen(msg, next_pc) ==
    /\ sent' = Append(sent, msg)
    /\ IF conn_up
       THEN pc' = next_pc /\ UNCHANGED raised
       ELSE pc' = "except" /\ raised' = Append(raised, "ConnectionResetError")

\* handshake = await self._recv_message() and the test on it (lines 315-320)
RecvHandshake ==
    /\ pc = "handshaking"
    \* readexactly returns once the bytes are there or the stream has ended
    /\ first_msg # "silent" \/ ~conn_up
    /\ handshake' = RecvMessage(first_msg, conn_up)
    /\ IF handshake' = "non_object"
       THEN \* handshake.get on a list, string or number
            pc' = "except" /\ raised' = Append(raised, "AttributeError")
       ELSE /\ pc' = IF ValidHandshake(handshake') THEN "ack" ELSE "invalid_handshake"
            /\ UNCHANGED raised
    /\ UNCHANGED <<first_msg, conn_up, sent, closed, client>>
    /\ UNCHANGED <<storeVars, pipeVars, bufVars, notSess>>

\* await self._send_error("INVALID_HANDSHAKE", ...); return
SendInvalidHandshake ==
    /\ pc = "invalid_handshake"
    /\ SendThen(ErrorMsg("INVALID_HANDSHAKE"), "finally")
    /\ UNCHANGED <<first_msg, conn_up, closed, client, handshake>>
    /\ UNCHANGED <<storeVars, pipeVars, bufVars, notSess>>

\* await self._send_message(ack)
SendAck ==
    /\ pc = "ack"
    /\ SendThen(HandshakeAck, "receiving")
    /\ UNCHANGED <<first_msg, conn_up, closed, client, handshake>>
    /\ UNCHANGED <<storeVars, pipeVars, bufVars, notSess>>

\* _receive_video: read until the peer half-closes, then write the file
ReceiveVideo ==
    /\ pc = "receiving"
    /\ client.pc # "await_ack" \/ ~conn_up
    /\ \/ /\ ~conn_up
          /\ pc' = "except" /\ raised' = Append(raised, "ConnectionResetError")
          /\ UNCHANGED video
       \/ /\ client.pc # "await_ack"
          /\ video' \in Videos
          /\ pc' = "dispatching"
          /\ UNCHANGED raised
    /\ UNCHANGED <<first_msg, conn_up, sent, closed, client, handshake>>
    /\ UNCHANGED <<queue, tasks, original_frames, video_props, all_results, files,
                   metrics, records, result, out_file>>
    /\ UNCHANGED <<storeVars, bufVars, notSess>>

\* processor.dispatch_tasks(video_path) -> _extract_and_dispatch_frames_sync
DispatchTasks ==
    /\ pc = "dispatching"
    /\ IF ~video.openable
       THEN /\ pc' = "except" /\ raised' = Append(raised, "ValueError")
            /\ UNCHANGED <<queue, tasks, original_frames, video_props, metrics>>
       ELSE LET st == ExtractAndDispatch(video)
            IN IF st.exc # "none"
               THEN \* the tasks published so far stay on the queue
                    /\ queue' = [k \in 1..Len(st.tasks) |-> st.tasks[k].frame_number]
                    /\ pc' = "except" /\ raised' = Append(raised, st.exc)
                    /\ UNCHANGED <<tasks, original_frames, video_props, metrics>>
               ELSE
               /\ tasks' = st.tasks
               /\ queue' = [k \in 1..Len(st.tasks) |-> st.tasks[k].frame_number]
               /\ original_frames' = st.original_frames
               /\ video_props' = VideoProps(video)
               /\ metrics' = [NewMetrics EXCEPT !.frames_total = video.declared]
               /\ pc' = "metadata"
               /\ UNCHANGED raised
    /\ UNCHANGED <<first_msg, conn_up, sent, closed, client, handshake>>
    /\ UNCHANGED <<video, all_results, files, records, result, out_file>>
    /\ UNCHANGED <<storeVars, bufVars, notSess>>

\* where a block of Redis calls is cut short: before its first call, between its
\* SETs and its EXPIREs, or nowhere
FailPoints(ops) ==
    {0, Len(ops)}
    \cup {n \in 1..(Len(ops) - 1) : ops[n].op = "set" /\ ops[n + 1].op = "expire"}

\* an except clause around the Redis calls that lets the exception through
BadExceptRedis(exc) == <<exc>>
\* except Exception as e: print(...): what leaves the try block of the Redis calls
ExceptRedis(exc) == <<>>

\* a try block of Redis calls: the first n run, the next one raises (n = all: none
\* raises); the exception meets the except clause of the block; the handler then
\* goes on at next_pc
RedisBlock(ops, next_pc) ==
    IF redis_up
    THEN \E n \in FailPoints(ops) :
           LET escaped == IF n < Len(ops) THEN ExceptRedis("RedisError") ELSE <<>>
           IN /\ store' = ApplyOps(store, ops, n)
              /\ redis_raised' = (redis_raised \/ n < Len(ops))
              /\ raised' = raised \o escaped
              /\ pc' = IF escaped = <<>> THEN next_pc ELSE "except"
    ELSE /\ pc' = next_pc
         /\ UNCHANGED <<store, redis_raised, raised>>

\* lines 336-351
SaveMetadata ==
    /\ pc = "metadata"
    /\ RedisBlock(MetadataOps, "awaiting")
    /\ UNCHANGED <<first_msg, conn_up, sent, closed, client, handshake>>
    /\ UNCHANGED <<redis_up, pipeVars, bufVars, notSess>>

FailKinds == {"timeout", "png_missing", "png_unreadable", "stats_default"}

\* what wait_for_frame yields for the task of frame n when its artifacts went as `kind`
ResultFor(n, kind) ==
    CASE kind = "timeout" -> TimeoutError(n)
      [] kind = "stats_default" -> FrameResult(n, FramePath(n), "default")
      [] OTHER -> FrameResult(n, FramePath(n), "json")
\* what the encode step finds at frame_path
FileFor(kind) ==
    CASE kind \in {"timeout", "png_missing"} -> "missing"
      [] kind = "png_unreadable" -> "unreadable"
      [] OTHER -> "readable"

\* all_results = await processor.get_celery_results(tasks, None): one result per
\* task, position k for tasks[k]; at most MaxFailed of the first frames go wrong
GetCeleryResults ==
    /\ pc = "awaiting"
    /\ LET T == Len(tasks)
           W == IF T < MaxDecoded THEN T ELSE MaxDecoded
           shape == <<video_props.height, video_props.width>>
       IN \E F \in SUBSET (1..W) :
            /\ Cardinality(F) <= MaxFailed
            /\ \E kinds \in [F -> FailKinds] :
                 /\ all_results' =
                      [k \in 1..T |->
                         ResultFor(tasks[k].frame_number,
                                   IF k \in F THEN kinds[k] ELSE "ok")]
                 /\ files' =
                      [n \in 0..(T - 1) |->
                         [state |-> FileFor(IF (n + 1) \in F THEN kinds[n + 1] ELSE "ok"),
                          frame |-> MkFrame(shape, "proc", tasks[n + 1].src)]]
    /\ pc' = "encoding"
    /\ UNCHANGED <<video, queue, tasks, original_frames, video_props, metrics, records,
                   result, out_file>>
    /\ UNCHANGED <<connVars, storeVars, bufVars, notSess>>

\* lines 389-396
MarkCompleted ==
    /\ pc = "completed"
    /\ IF result.ok THEN RedisBlock(CompletedOps, "reading")
       ELSE pc' = "reading" /\ UNCHANGED <<store, redis_raised, raised>>
    /\ UNCHANGED <<first_msg, conn_up, sent, closed, client, handshake>>
    /\ UNCHANGED <<redis_up, pipeVars, bufVars, notSess>>

\* the bytes of the output file: a container header and one unit per encoded frame
VideoData(w) == [k \in 1..(1 + w.frame_count) |-> 0]

\* video_data = await loop.run_in_executor(None, self._read_video_file, output_path)
ReadVideoFile ==
    /\ pc = "reading"
    /\ IF vfb.writer.file_created
       THEN /\ out_file' = VideoData(vfb.writer)
            /\ pc' = "send_result"
            /\ UNCHANGED raised
       ELSE /\ pc' = "except" /\ raised' = Append(raised, "FileNotFoundError")
            /\ UNCHANGED out_file
    /\ UNCHANGED <<first_msg, conn_up, sent, closed, client, handshake>>
    /\ UNCHANGED <<video, queue, tasks, original_frames, video_props, all_results, files,
                   metrics, records, result>>
    /\ UNCHANGED <<storeVars, bufVars, notSess>>

\* await self._send_message(result_msg)
SendResult ==
    /\ pc = "send_result"
    /\ SendThen(ResultMsg(out_file, vfb.writer.frame_count), "send_video")
    /\ UNCHANGED <<first_msg, conn_up, closed, client, handshake>>
    /\ UNCHANGED <<storeVars, pipeVars, bufVars, notSess>>

\* self.writer.write(video_data); await self.writer.drain()
SendVideo ==
    /\ pc = "send_video"
    /\ SendThen(RawBytes(out_file), "finally")
    /\ UNCHANGED <<first_msg, conn_up, closed, client, handshake>>
    /\ UNCHANGED <<storeVars, pipeVars, bufVars, notSess>>

\* except Exception as e: ... await self._send_error("PROCESSING_ERROR", str(e))
HandleException ==
    /\ pc = "except"
    /\ sent' = Append(sent, ErrorMsg("PROCESSING_ERROR"))
    /\ raised' = IF conn_up THEN raised ELSE Append(raised, "ConnectionResetError")
    /\ pc' = "finally"
    /\ UNCHANGED <<first_msg, conn_up, closed, client, handshake>>
    /\ UNCHANGED <<storeVars, pipeVars, bufVars, notSess>>

\* finally: self.writer.close(); await self.writer.wait_closed()
CloseConnection ==
    /\ pc = "finally"
    /\ closed' = TRUE
    /\ pc' = "done"
    /\ UNCHANGED <<first_msg, conn_up, sent, client, handshake, raised>>
    /\ UNCHANGED <<storeVars, pipeVars, bufVars, notSess>>

\* ------------------------------------------------------------------ session: VideoClient
\* the k-th item the server wrote reached the client
Visible(k) == k <= Len(sent) /\ sent[k].delivered
clientUnchanged ==
    <<pc, first_msg, conn_up, sent, closed, handshake, raised, storeVars, pipeVars,
      bufVars, notSess>>

\* ack = recv_message(sock); then sendall(video) and shutdown(SHUT_WR)
ClientRecvAck ==
    /\ client.pc = "await_ack"
    /\ Visible(client.pos + 1)
    /\ client' = IF sent[client.pos + 1].type = "handshake_ack"
                 THEN [client EXCEPT !.pc = "reading", !.pos = @ + 1]
                 ELSE [client EXCEPT !.pc = "done", !.pos = @ + 1, !.ret = "rejected"]
    /\ UNCHANGED clientUnchanged

\* one turn of the while True loop of send_video, up to the result message
ClientRecvMessage ==
    /\ client.pc = "reading"
    /\ Visible(client.pos + 1)
    /\ LET m == sent[client.pos + 1]
       IN client' =
            CASE m.type = "progress" -> [client EXCEPT !.pos = @ + 1]
              [] m.type = "result" ->
                   IF m.ok
                   THEN [client EXCEPT !.pos = @ + 1, !.pc = "recv_bytes",
                                       !.size = m.size_bytes]
                   ELSE [client EXCEPT !.pos = @ + 1, !.pc = "done",
                                       !.ret = "result_not_ok"]
              [] m.type = "error" ->
                   [client EXCEPT !.pos = @ + 1, !.pc = "done", !.ret = "error"]
              [] OTHER -> [client EXCEPT !.pos = @ + 1]
    /\ UNCHANGED clientUnchanged

\* video_data = messages.recv_bytes(self.sock, size)
ClientRecvBytes ==
    /\ client.pc = "recv_bytes"
    /\ Visible(client.pos + 1)
    /\ LET m == sent[client.pos + 1]
       IN client' =
            IF m.type = "raw" /\ m.size_bytes >= client.size
            THEN [client EXCEPT !.pos = @ + 1, !.pc = "done", !.ret = "result",
                                !.got = client.size, !.wrote = TRUE]
            ELSE [client EXCEPT !.pos = @ + 1, !.pc = "done", !.ret = "ProtocolError",
                                !.got = IF m.type = "raw" THEN m.size_bytes ELSE 0]
    /\ UNCHANGED clientUnchanged

\* recv returns b'': the stream ended with nothing more to read
ClientSeesClose ==
    /\ client.pc \in {"await_ack", "reading", "recv_bytes"}
    /\ closed \/ ~conn_up
    /\ ~Visible(client.pos + 1)
    /\ client' = [client EXCEPT !.pc = "done", !.ret = "closed"]
    /\ UNCHANGED clientUnchanged

Next ==
    \/ ConnectionLost
    \/ RecvHandshake
    \/ SendInvalidHandshake
    \/ SendAck
    \/ ReceiveVideo
    \/ DispatchTasks
    \/ SaveMetadata
    \/ GetCeleryResults
    \/ process_results
    \/ MarkCompleted
    \/ ReadVideoFile
    \/ SendResult
    \/ SendVideo
    \/ HandleException
    \/ CloseConnection
    \/ ClientRecvAck
    \/ ClientRecvMessage
    \/ ClientRecvBytes
    \/ ClientSeesClose

Spec == InitSess /\ [][Next]_vars

\* ------------------------------------------------------------------ session: properties
ResultSent == \E k \in 1..Len(sent) : sent[k].type = "result"

\* C2: in every session that sent a result message, the number of frames handed
\* to the output encoder equals the declared frame count video_props.total_frames,
\* whatever the decoder yielded and whichever source frame failed to PNG-encode
C2_OutputHasDeclaredFrames ==
    ResultSent => Len(vfb.writer.encoded) = video_props.total_frames

\* C6: in a session with at least ProgressEvery declared frames, the result
\* message is preceded by a progress message with 0 < frames_processed < N
C6_ProgressBeforeResult ==
    \A k \in 1..Len(sent) :
      (sent[k].type = "result" /\ video_props.total_frames >= ProgressEvery) =>
        \E j \in 1..(k - 1) :
          /\ sent[j].type = "progress"
          /\ sent[j].frames_processed > 0
          /\ sent[j].frames_processed < video_props.total_frames

\* C7: a session that failed after a valid handshake has, once the connection is
\* closed, the key status = 'failed' in a reachable state store
C7_FailedStatusOnFailure ==
    (pc = "done" /\ handshake = "handshake" /\ raised # <<>>
       /\ redis_up /\ ~redis_raised) =>
      ("status" \in DOMAIN store /\ store["status"].val = "failed")

\* the first message is absent, unparsable or of another type
InvalidFirst == first_msg \in {"absent", "unparsable", "other_type"}
ErrorsWith(code) ==
    {k \in 1..Len(sent) : sent[k].type = "error" /\ sent[k].code = code}

SuccessPath == pc \in {"finally", "done"} /\ raised = <<>> /\ ResultSent

\* C9: on the success path the last two things written are the result message
\* and the raw bytes, size_bytes of them, the whole output file; no result or raw
\* item comes before them; and a client that consumed the raw bytes consumed
\* exactly size_bytes of them
C9_ResultThenExactBytes ==
    /\ SuccessPath =>
         LET n == Len(sent) IN
         /\ n >= 2
         /\ sent[n - 1].type = "result" /\ sent[n].type = "raw"
         /\ sent[n - 1].size_bytes = Len(out_file)
         /\ sent[n].size_bytes = sent[n - 1].size_bytes
         /\ \A k \in 1..(n - 2) : sent[k].type \notin {"result", "raw"}
    /\ (client # <<>> /\ client.pc = "done" /\ client.pos >= 1
          /\ sent[client.pos].type = "raw") =>
         /\ client.ret = "result"
         /\ sent[client.pos - 1].type = "result"
         /\ client.got = sent[client.pos - 1].size_bytes
         /\ client.got = sent[client.pos].size_bytes

\* a session of several frames ran to the end and the client has the whole file
C9_Witness ==
    /\ pc = "done" /\ raised = <<>> /\ ResultSent
    /\ Len(out_file) > 2
    /\ client.ret = "result" /\ client.got = Len(out_file)

\* C10: while no Redis call has failed, every key of the session present in the
\* state store carries an expiry of at most TTL seconds
C10_EveryKeyHasTTL ==
    ~redis_raised =>
      \A key \in DOMAIN store : store[key].ttl >= 1 /\ store[key].ttl <= TTL

\* ------------------------------------------------------------------ MetricsCollector under threads
MaxThreads == 2     \* threads sharing one MetricsCollector
MaxCalls == 3       \* calls started on the collector in one run
Threads == 1..MaxThreads
Methods ==
    {"record_frame", "record_retry", "set_total_frames", "reset",
     "get_fps_processing", "get_progress"}
IdleThread ==
    [op |-> "none", pc |-> "idle", failed |-> FALSE, local |-> 0, outer |-> "none",
     ret |-> <<>>]

\* threading.Lock.acquire that does not look at the holder
BadCanAcquire(holder) == TRUE
\* threading.Lock.acquire: only a free lock is taken, whoever asks
CanAcquire(holder) == holder = 0

\* self.frames_processed / elapsed, kept as the pair <<dividend, divisor>>
Quotient(a, b) == <<a, b>>
\* get_fps_processing, with elapsed = time.time() - self.start_time
GetFpsProcessing(m, elapsed) ==
    IF elapsed = 0 THEN Quotient(0, 1) ELSE Quotient(m.frames_processed, elapsed)

InitMetrics ==
    /\ mc = NewMetrics
    /\ mlock = 0
    /\ mth = [t \in Threads |-> IdleThread]
    /\ mdone = 0
    /\ mleft = MaxCalls
    /\ IdleBuf /\ IdleCol /\ IdleWk /\ IdleSess /\ IdleExt

\* a thread enters a method and reaches its `with self.lock:`
MCall(t) ==
    /\ mth[t].pc = "idle" /\ mleft > 0
    /\ \E op \in Methods, f \in BOOLEAN :
         mth' = [mth EXCEPT ![t] = [IdleThread EXCEPT !.op = op, !.pc = "acquire",
                                                      !.failed = f]]
    /\ mleft' = mleft - 1
    /\ UNCHANGED <<mc, mlock, mdone, notMet>>

\* `with self.lock:` entered
MAcquire(t) ==
    /\ mth[t].pc = "acquire"
    /\ CanAcquire(mlock)
    /\ mlock' = t
    /\ mth' = [mth EXCEPT ![t].pc = IF mth[t].op = "record_frame" THEN "load" ELSE "body"]
    /\ UNCHANGED <<mc, mdone, mleft, notMet>>

\* record_frame: the read of self.frames_processed += 1
MLoad(t) ==
    /\ mth[t].pc = "load"
    /\ mth' = [mth EXCEPT ![t].local = mc.frames_processed, ![t].pc = "store"]
    /\ UNCHANGED <<mc, mlock, mdone, mleft, notMet>>

\* record_frame: the write of self.frames_processed += 1 and the rest of the body
MStore(t) ==
    /\ mth[t].pc = "store"
    /\ mc' = RecordFrame([mc EXCEPT !.frames_processed = mth[t].local], 1, mth[t].failed)
    /\ mth' = [mth EXCEPT ![t].pc = "release"]
    /\ UNCHANGED <<mlock, mdone, mleft, notMet>>

\* the body of the other methods, run with the lock held
MBody(t) ==
    /\ mth[t].pc = "body"
    /\ LET op == mth[t].op IN
       \/ /\ op = "record_retry"
          /\ mc' = [mc EXCEPT !.retries_count = @ + 1]
          /\ mth' = [mth EXCEPT ![t].pc = "release"]
          /\ UNCHANGED mdone
       \/ /\ op = "set_total_frames"
          /\ mc' = [mc EXCEPT !.frames_total = 2]
          /\ mth' = [mth EXCEPT ![t].pc = "release"]
          /\ UNCHANGED mdone
       \/ /\ op = "reset"
          /\ mc' = NewMetrics
          /\ mdone' = 0
          /\ mth' = [mth EXCEPT ![t].pc = "release"]
       \/ /\ op = "get_fps_processing"
          /\ \E elapsed \in 0..1 :
               mth' = [mth EXCEPT ![t].ret = GetFpsProcessing(mc, elapsed),
                                  ![t].pc = "release"]
          /\ UNCHANGED <<mc, mdone>>
       \/ /\ op = "get_progress"
          \* the dict literal evaluates self.get_fps_processing() with the lock held
          /\ mth' = [mth EXCEPT ![t].outer = "get_progress",
                                ![t].op = "get_fps_processing", ![t].pc = "acquire"]
          /\ UNCHANGED <<mc, mdone>>
    /\ UNCHANGED <<mlock, mleft, notMet>>

\* leaving `with self.lock:` and returning
MRelease(t) ==
    /\ mth[t].pc = "release"
    /\ mlock' = 0
    /\ mdone' = IF mth[t].op = "record_frame" THEN mdone + 1 ELSE mdone
    /\ mth' = [mth EXCEPT ![t].pc = "idle"]
    /\ UNCHANGED <<mc, mleft, notMet>>

NextMetrics ==
    \E t \in Threads :
      \/ MCall(t)
      \/ MAcquire(t)
      \/ MLoad(t)
      \/ MStore(t)
      \/ MBody(t)
      \/ MRelease(t)

SpecMetrics == InitMetrics /\ [][NextMetrics]_vars

\* C11: a thread inside get_progress never waits for the collector's lock while
\* holding that lock itself (a wait nobody can end)
C11_GetProgressNeverSelfBlocks ==
    \A t \in Threads :
      ~(mth[t].outer = "get_progress" /\ mth[t].pc = "acquire" /\ mlock = t)

\* a thread is between the lock acquisition and the release of a record_frame
InRecordFrame(t) ==
    mth[t].op = "record_frame" /\ mth[t].pc \in {"load", "store", "release"}

\* C12: while no record_frame call is in progress, frames_processed equals
\* frames_failed + len(latencies) and equals the number of record_frame calls
\* completed since the last reset
C12_CountersConsistent ==
    (\A t \in Threads : ~InRecordFrame(t)) =>
      /\ mc.frames_processed = mc.frames_failed + Len(mc.latencies)
      /\ mc.frames_processed = mdone

\* two record_frame calls, one failed and one not, have completed on different threads
C12_Witness ==
    /\ \A t \in Threads : mth[t].pc = "idle"
    /\ \E t, u \in Threads : t # u /\ mth[t].op = "record_frame"
                                   /\ mth[u].op = "record_frame"
    /\ mdone = 2 /\ mc.frames_failed = 1 /\ Len(mc.latencies) = 1

\* ------------------------------------------------------------------ session: store failures
\* what a handler whose connection stayed up has written once it is done, from the
\* upload and the encoder alone
ExpectedSent ==
    IF video.openable /\ video.pubfail = {} /\ vfb.writer.file_created
    THEN <<HandshakeAck, ResultMsg(VideoData(vfb.writer), vfb.writer.frame_count),
           RawBytes(VideoData(vfb.writer))>>
    ELSE <<HandshakeAck, ErrorMsg("PROCESSING_ERROR")>>

\* C13: no exception of a state-store call reaches the except block of handle, and
\* a session whose connection stayed up has sent the same handshake_ack, result
\* message and output bytes whether the store was unreachable, failed midway or
\* worked
C13_StoreFailureInvisible ==
    /\ \A k \in 1..Len(raised) : raised[k] # "RedisError"
    /\ (pc = "done" /\ conn_up /\ handshake = "handshake") => sent = ExpectedSent

\* a session in which a Redis call raised and the client still got its whole video
C13_Witness ==
    /\ pc = "done" /\ conn_up /\ redis_up /\ redis_raised
    /\ raised = <<>>
    /\ Len(sent) = 3 /\ sent[2].type = "result"
    /\ client.ret = "result" /\ client.got = Len(out_file)

\* ------------------------------------------------------------------ session: broker failures
\* C14: a session in which the publish of one frame failed, with the upload
\* readable, the encoder working and the connection up, still dispatches the
\* other frames and ends with a result message
C14_PublishFailureNotFatal ==
    (pc = "done" /\ conn_up /\ cvOpens /\ handshake = "handshake"
       /\ video.openable /\ video.pubfail # {}) =>
      /\ ResultSent
      /\ Len(queue) = video.decoded - 1

\* ------------------------------------------------------------------ collectors: per-frame outcome
Requested == {frame_numbers[k] : k \in 1..Len(frame_numbers)}
\* the entry returned for frame number n
EntryFor(n) == returned[CHOOSE j \in 1..Len(returned) : returned[j].frame_number = n]
\* position k is the only request for its frame number
AskedOnce(k) == \A j \in 1..Len(frame_numbers) : frame_numbers[j] = frame_numbers[k] => j = k

\* C15: collect_frames_parallel called without a raising callback returns exactly
\* one entry per distinct requested frame number; for a number requested once, a
\* timed-out poll (every poll before the deadline found the pair incomplete) gives
\* the error entry with frame_path None for that number, and a poll that found the
\* pair gives the successful entry, whatever happened to the other numbers
C15_TimeoutIsPerFrame ==
    (done /\ mode = "collector" /\ callback # "raises") =>
      /\ Len(returned) = Cardinality(Requested)
      /\ {returned[j].frame_number : j \in 1..Len(returned)} = Requested
      /\ \A k \in 1..Len(frame_numbers) :
           LET n == frame_numbers[k] IN
           AskedOnce(k) =>
             /\ fut[k].kind = "TimeoutError" =>
                  /\ waited[k] = PollLimit
                  /\ EntryFor(n) = FrameResult(n, NoPath, "error")
             /\ fut[k].kind = "result" =>
                  /\ disk[n] = Complete
                  /\ EntryFor(n) = FrameResult(n, FramePath(n), "json")
             /\ (disk[n] = Complete /\ waited[k] < PollLimit) => fut[k].kind = "result"

\* one frame timed out and another, asked for in the same call, was collected
C15_Witness ==
    /\ done /\ mode = "collector" /\ callback = "none"
    /\ Len(returned) = 2
    /\ \E j, k \in 1..2 :
         /\ returned[j].stats = "error" /\ returned[j].frame_path = NoPath
         /\ returned[k].stats = "json" /\ returned[k].frame_path = FramePath(returned[k].frame_number)

\* C16: a wait of get_celery_results that returned a frame result returned the
\* stats parsed from the sidecar JSON, never substitute stats taken while the
\* sidecar could not be parsed
C16_WaitReturnsParsedStats ==
    mode = "gather" =>
      \A k \in 1..Len(fut) : fut[k].kind = "result" => fut[k].stats = "json"

\* ------------------------------------------------------------------ session: phase order
\* the steps of handle in program order, from the handshake to the close
PhaseOrder ==
    <<"handshaking", "ack", "receiving", "dispatching", "metadata", "awaiting",
      "encoding", "completed", "reading", "send_result", "send_video", "finally",
      "done">>
PhaseIndex(p) == CHOOSE k \in 1..Len(PhaseOrder) : PhaseOrder[k] = p
\* the steps control can reach from step p
Successors(p) ==
    CASE p = "handshaking" -> {"ack", "invalid_handshake", "except"}
      [] p = "invalid_handshake" -> {"finally", "except"}
      [] p = "except" -> {"finally"}
      [] p \in {"finally", "done", "off"} -> {"done"}
      [] OTHER -> {PhaseOrder[PhaseIndex(p) + 1], "except"}
Resolved(r) == r.kind \in {"result", "TimeoutError"}

\* C17: handle moves from each step only to the next one in program order (or to
\* its error exit), and at every moment: an upload has been consumed only after
\* handshake_ack was written; work is queued only after the receive has ended;
\* the encoder has been given frames only after every wait has resolved; and the
\* result message is written only after the encoder was closed
C17_PhasesInOrder ==
    /\ [][pc' # pc => pc' \in Successors(pc)]_vars
    /\ [](video # <<>> => \E k \in 1..Len(sent) : sent[k].type = "handshake_ack")
    /\ [](queue # <<>> =>
            video # <<>> /\ pc \notin {"handshaking", "ack", "receiving", "dispatching"})
    /\ [](vfb # <<>> =>
            /\ Len(all_results) = Len(tasks)
            /\ \A k \in 1..Len(all_results) : Resolved(all_results[k])
            /\ pc \notin {"awaiting", "encoding"})
    /\ [](ResultSent => vfb # <<>> /\ ~vfb.writer.is_open /\ result # <<>>)

\* a session went through every step and delivered an encoded video of two frames
C17_Witness ==
    /\ pc = "done" /\ raised = <<>> /\ ResultSent
    /\ Len(tasks) = 2 /\ Len(all_results) = 2
    /\ vfb.writer.frame_count >= 2 /\ ~vfb.writer.is_open

\* ------------------------------------------------------------------ session: the handshake alone
\* the steps of handle up to the acknowledged handshake, and its exits
ServerHandshake ==
    \/ RecvHandshake
    \/ SendInvalidHandshake
    \/ SendAck
    \/ HandleException
    \/ CloseConnection

NextHandshake ==
    \/ ConnectionLost
    \/ ServerHandshake
    \/ ClientRecvAck
    \/ ClientSeesClose

\* the handshake under an event loop that runs every coroutine that is ready
SpecHandshake == InitSess /\ [][NextHandshake]_vars /\ WF_vars(ServerHandshake)

\* C18: a connection whose peer sends no handshake is eventually closed by the server
C18_SilentClientIsDropped == (first_msg = "silent") ~> closed

\* ------------------------------------------------------------------ _process_results_sync: encoder failures
\* the encoder raised on the frame written for the i-th result
WriteFailed(i) ==
    cvOpens /\ records[i].frame.kind # "zero" /\ records[i].frame.id \in cvRaises

\* C19: after _process_results_sync, with an encoder that opened, the cursor has
\* moved past every result, the call returned its dict, and every frame whose
\* encoder write failed was recorded as failed in the metrics
C19_WriteFailureCounted ==
    (pc = "completed" /\ cvOpens) =>
      /\ result.ok
      /\ vfb.next_frame_number >= Len(tasks)
      /\ \A i \in 1..Len(records) : WriteFailed(i) => records[i].failed

\* ------------------------------------------------------------------ buffer: repeated flush
\* the last call made on the buffer was flush_remaining(n)
LastWasFlush(h, n) == Len(h) >= 1 /\ h[Len(h)].op = "flush" /\ h[Len(h)].n = n

\* C20: a flush_remaining(N) that directly follows a flush_remaining(N) returns 0
\* and leaves the writer (no further write), next_frame_number and the buffer as
\* they were
C20_FlushIdempotent ==
    [][\A n \in 0..MaxFrames :
         (LastWasFlush(hist, n) /\ Len(hist') = Len(hist) + 1 /\ LastWasFlush(hist', n))
           => (ret' = 0 /\ vfb' = vfb)]_vars

\* an add left a gap, flush_remaining(N) padded it, and flush_remaining(N) ran again
C20_Witness ==
    /\ Len(hist) = 3
    /\ hist[1].op = "add" /\ hist[1].n = 1
    /\ hist[2].op = "flush" /\ hist[2].n >= 2 /\ LastWasFlush(hist, hist[2].n)
    /\ ret = 0
    /\ Len(vfb.writer.calls) = hist[2].n
    /\ vfb.next_frame_number = hist[2].n

\* ------------------------------------------------------------------ session: completion record
\* C22: once the result message has been written in a session whose state store
\* is reachable and never failed, the store holds status = 'completed', end_time
\* and total_time_seconds
C22_CompletedRecordWritten ==
    (ResultSent /\ redis_up /\ ~redis_raised) =>
      /\ {"status", "end_time", "total_time_seconds"} \subseteq DOMAIN store
      /\ store["status"].val = "completed"

\* ------------------------------------------------------------------ preview server: /session/{id}/stream
MaxEvents == 3      \* events one stream yields in a run
StoredStatus == {"absent", "processing", "completed", "failed"}

\* the 'status' of get_session_progress: the key, 'unknown' when it is missing,
\* 'error' when a Redis call raised
GetSessionProgress(status, redis_ok) ==
    IF ~redis_ok THEN "error"
    ELSE IF status = "absent" THEN "unknown" ELSE status
\* progress.get('status') in ['completed', 'error']
StreamBreaks(status) == status \in {"completed", "error"}

InitStream ==
    /\ sse_status \in StoredStatus
    /\ sse_pc = "emit"
    /\ sse_out = <<>>
    /\ IdleBuf /\ IdleCol /\ IdleWk /\ IdleSess /\ IdleMet /\ IdleFun /\ IdleEv /\ IdleMore

\* progress = get_session_progress(session_id); yield ...; the test for the break
StreamYield ==
    /\ sse_pc = "emit" /\ Len(sse_out) < MaxEvents
    /\ \E redis_ok \in BOOLEAN :
         LET status == GetSessionProgress(sse_status, redis_ok)
         IN /\ sse_out' = Append(sse_out, status)
            /\ sse_pc' = IF StreamBreaks(status) THEN "ended" ELSE "sleep"
    /\ UNCHANGED <<sse_status, notSse>>

\* time.sleep(0.5) is over
StreamWake ==
    /\ sse_pc = "sleep"
    /\ sse_pc' = "emit"
    /\ UNCHANGED <<sse_status, sse_out, notSse>>

\* the session's status key is written, or expires
StatusChanges ==
    /\ sse_pc # "ended"
    /\ \E st \in StoredStatus :
         /\ st # sse_status
         /\ sse_status' = st
    /\ UNCHANGED <<sse_pc, sse_out, notSse>>

NextStream == StreamYield \/ StreamWake \/ StatusChanges

SpecStream == InitStream /\ [][NextStream]_vars

\* C23: the generator yields nothing after an event whose status is 'completed'
\* or 'failed'
C23_StreamEndsAtTerminalStatus ==
    \A k \in 1..(Len(sse_out) - 1) : sse_out[k] \notin {"completed", "failed"}

\* ------------------------------------------------------------------ event loop: several sessions
MaxSessions == 2    \* connections made to the listener in a run
Sessions == 1..MaxSessions

\* an await in wait_for_frame that keeps the loop thread (time.sleep)
BadSleepYields == FALSE
\* await asyncio.sleep(check_interval) hands the loop thread back to the loop
SleepYields == TRUE

InitLoop ==
    /\ ev_owner = 0
    /\ ev_pc = [s \in Sessions |-> "unconnected"]
    /\ ev_ready = [s \in Sessions |-> FALSE]
    /\ ev_polls = [s \in Sessions |-> 0]
    /\ ev_after = [s \in Sessions |-> {}]
    /\ IdleBuf /\ IdleCol /\ IdleWk /\ IdleSess /\ IdleMet /\ IdleSse /\ IdleFun /\ IdleMore

\* asyncio.start_server accepts the connection and starts handle_client as a task
LoopAccept(s) ==
    /\ ev_owner = 0 /\ ev_pc[s] = "unconnected"
    /\ ev_pc' = [ev_pc EXCEPT ![s] = "handshaking"]
    /\ ev_after' = [ev_after EXCEPT ![s] = {a \in Sessions : ev_pc[a] = "awaiting"}]
    /\ UNCHANGED <<ev_owner, ev_ready, ev_polls, notEv>>

\* the handshake has arrived: ack, then await the upload
LoopHandshake(s) ==
    /\ ev_owner = 0 /\ ev_pc[s] = "handshaking"
    /\ ev_pc' = [ev_pc EXCEPT ![s] = "receiving"]
    /\ UNCHANGED <<ev_owner, ev_ready, ev_polls, ev_after, notEv>>

\* the upload has ended: dispatch_tasks hands the extraction to the executor
LoopReceive(s) ==
    /\ ev_owner = 0 /\ ev_pc[s] = "receiving"
    /\ ev_pc' = [ev_pc EXCEPT ![s] = "dispatching"]
    /\ UNCHANGED <<ev_owner, ev_ready, ev_polls, ev_after, notEv>>

\* the executor thread is done; handle resumes and makes its Redis calls, which
\* are synchronous and keep the loop thread until they return
LoopDispatched(s) ==
    /\ ev_owner = 0 /\ ev_pc[s] = "dispatching"
    /\ ev_pc' = [ev_pc EXCEPT ![s] = "metadata"]
    /\ ev_owner' = s
    /\ UNCHANGED <<ev_ready, ev_polls, ev_after, notEv>>

\* the Redis calls returned (or timed out); get_celery_results starts its waits
LoopMetadataDone(s) ==
    /\ ev_owner = s /\ ev_pc[s] = "metadata"
    /\ ev_pc' = [ev_pc EXCEPT ![s] = "awaiting"]
    /\ ev_owner' = 0
    /\ UNCHANGED <<ev_ready, ev_polls, ev_after, notEv>>

\* the workers of session s have written its artifacts
LoopWorkersDone(s) ==
    /\ ev_pc[s] \in {"metadata", "awaiting"} /\ ~ev_ready[s]
    /\ ev_ready' = [ev_ready EXCEPT ![s] = TRUE]
    /\ UNCHANGED <<ev_owner, ev_pc, ev_polls, ev_after, notEv>>

\* one turn of the while loop of wait_for_frame
LoopPoll(s) ==
    /\ ev_owner \in {0, s} /\ ev_pc[s] = "awaiting"
    /\ IF ev_ready[s] \/ ev_polls[s] >= PollLimit
       THEN \* the files are there, or the deadline passed: on to process_results
            /\ ev_pc' = [ev_pc EXCEPT ![s] = "encoding"]
            /\ ev_owner' = 0
            /\ UNCHANGED ev_polls
       ELSE /\ ev_polls' = [ev_polls EXCEPT ![s] = @ + 1]
            /\ ev_owner' = IF SleepYields THEN 0 ELSE s
            /\ UNCHANGED ev_pc
    /\ UNCHANGED <<ev_ready, ev_after, notEv>>

\* the executor has encoded the output; the result and the bytes are sent
LoopDeliver(s) ==
    /\ ev_owner = 0 /\ ev_pc[s] = "encoding"
    /\ ev_pc' = [ev_pc EXCEPT ![s] = "done"]
    /\ UNCHANGED <<ev_owner, ev_ready, ev_polls, ev_after, notEv>>

\* the steps that take a session from the connection to the end of its dispatch
LoopAdvance(s) ==
    LoopAccept(s) \/ LoopHandshake(s) \/ LoopReceive(s) \/ LoopDispatched(s)

NextLoop ==
    \E s \in Sessions :
      \/ LoopAccept(s)
      \/ LoopHandshake(s)
      \/ LoopReceive(s)
      \/ LoopDispatched(s)
      \/ LoopMetadataDone(s)
      \/ LoopWorkersDone(s)
      \/ LoopPoll(s)
      \/ LoopDeliver(s)

SpecLoop == InitLoop /\ [][NextLoop]_vars

\* C24: a session that is waiting for its artifacts does not hold the loop
\* thread, and unless some session is inside its synchronous Redis calls the next
\* step of any other session on its way to the end of dispatch can be taken
C24_SessionsNotSerialized ==
    \A a \in Sessions :
      ev_pc[a] = "awaiting" =>
        /\ ev_owner # a
        /\ \A b \in Sessions :
             (b # a /\ ev_pc[b] \in {"unconnected", "handshaking", "receiving",
                                     "dispatching"}
                /\ \A c \in Sessions : ev_pc[c] # "metadata")
               => ENABLED LoopAdvance(b)

\* session 2 connected while session 1 was awaiting and reached its own awaiting
\* phase while session 1, its artifacts missing, had polled and was still waiting
C24_Witness ==
    /\ ev_pc[1] = "awaiting" /\ ~ev_ready[1] /\ ev_polls[1] >= 1
    /\ 1 \in ev_after[2]
    /\ ev_pc[2] = "awaiting"

\* ------------------------------------------------------------------ protocol: framing and JSON
\* A byte is a number in 0..255 and a text a sequence of code points. A message is
\* a dict with string keys and scalar values, kept as a sequence of <<key, value>>
\* pairs; a key is a text, a value a sequence of numbers: <<0, n>> the integer n,
\* <<1>> \o s the string s, <<2, 0>> false, <<2, 1>> true, <<3>> None.
MaxMsgs == 2        \* messages on one connection
MaxChunk == 2       \* largest chunk size the transport is made to deliver

\* the messages sent in the runs: empty; {"a": 10}; a key with a non-ASCII
\* character (233) and a value with quote, backslash and a letter; two keys with
\* the literals True and None
Messages ==
    { <<>>,
      << <<<<97>>, <<0, 10>>>> >>,
      << <<<<233>>, <<1, 34, 92, 97>>>> >>,
      << <<<<97>>, <<2, 1>>>>, <<<<98>>, <<3>>>> >> }

\* json.dumps(message).encode('utf-8') with the defaults: ensure_ascii=True, so
\* the text is ASCII, one byte per character, and the separators ', ' and ': '
\* (the short escapes of control characters are not modelled, no message holds one)
json_dumps(m) ==
    LET RECURSIVE Digits(_)
        Digits(n) ==
            IF n < 10 THEN <<48 + n>> ELSE Digits(n \div 10) \o <<48 + (n % 10)>>
        HexDigit(d) == IF d < 10 THEN 48 + d ELSE 87 + d
        DumpsChar(c) ==
            IF c \in {34, 92} THEN <<92, c>>
            ELSE IF c < 32 \/ c > 126
                 THEN <<92, 117, HexDigit((c \div 4096) % 16), HexDigit((c \div 256) % 16),
                        HexDigit((c \div 16) % 16), HexDigit(c % 16)>>
            ELSE <<c>>
        RECURSIVE DumpsChars(_)
        DumpsChars(s) ==
            IF s = <<>> THEN <<>> ELSE DumpsChar(Head(s)) \o DumpsChars(Tail(s))
        DumpsStr(s) == <<34>> \o DumpsChars(s) \o <<34>>
        DumpsValue(v) ==
            CASE v[1] = 0 -> Digits(v[2])
              [] v[1] = 1 -> DumpsStr(Tail(v))
              [] v[1] = 2 -> IF v[2] = 1 THEN <<116, 114, 117, 101>>
                             ELSE <<102, 97, 108, 115, 101>>
              [] OTHER -> <<110, 117, 108, 108>>
        RECURSIVE DumpsItems(_)
        DumpsItems(d) ==
            IF d = <<>> THEN <<>>
            ELSE DumpsStr(d[1][1]) \o <<58, 32>> \o DumpsValue(d[1][2])
                 \o (IF Len(d) > 1 THEN <<44, 32>> ELSE <<>>) \o DumpsItems(Tail(d))
    IN  <<123>> \o DumpsItems(m) \o <<125>>

\* struct.pack('!I', n)
struct_pack(n) ==
    <<(n \div 16777216) % 256, (n \div 65536) % 256, (n \div 256) % 256, n % 256>>

\* struct.unpack('!I', b)[0], b of four bytes
struct_unpack(b) == b[1] * 16777216 + b[2] * 65536 + b[3] * 256 + b[4]

\* what send_message hands to sendall
send_message(m) == struct_pack(Len(json_dumps(m))) \o json_dumps(m)

\* --- decoding
\* bytes.decode('utf-8') for one- and two-byte forms; any other byte is refused
\* (the longer forms are not modelled, no input holds their lead bytes)
Utf8Decode(b) ==
    LET RECURSIVE Utf8Loop(_, _)
        Utf8Loop(i, acc) ==
            IF i > Len(b) THEN [ok |-> TRUE, v |-> acc, i |-> i]
            ELSE IF b[i] < 128 THEN Utf8Loop(i + 1, Append(acc, b[i]))
            ELSE IF b[i] \in 194..223 /\ i + 1 <= Len(b) /\ b[i + 1] \in 128..191
                 THEN Utf8Loop(i + 2, Append(acc, (b[i] - 192) * 64 + (b[i + 1] - 128)))
            ELSE [ok |-> FALSE, v |-> <<>>, i |-> 0]
    IN  Utf8Loop(1, <<>>)

\* json.loads of a text whose top level is an object of scalars; ok FALSE is
\* JSONDecodeError (signs, fractions, exponents and containers inside a message
\* are not modelled, no input holds one)
json_loads(t) ==
    LET ParseFail == [ok |-> FALSE, v |-> <<>>, i |-> 0]
        RECURSIVE SkipWs(_)
        SkipWs(i) == IF i <= Len(t) /\ t[i] \in {32, 9, 10, 13} THEN SkipWs(i + 1) ELSE i

        HexVal(c) ==
            IF c \in 48..57 THEN c - 48
            ELSE IF c \in 97..102 THEN c - 87
            ELSE IF c \in 65..70 THEN c - 55
            ELSE -1

        ControlOf(c) == CASE c = 98 -> 8 [] c = 102 -> 12 [] c = 110 -> 10 [] c = 114 -> 13 [] OTHER -> 9

        \* the scanner of a JSON string, i the position after the opening quote
        RECURSIVE ParseStr(_, _)
        ParseStr(i, acc) ==
            IF i > Len(t) THEN ParseFail
            ELSE IF t[i] = 34 THEN [ok |-> TRUE, v |-> acc, i |-> i + 1]
            ELSE IF t[i] = 92 THEN
                IF i + 1 > Len(t) THEN ParseFail
                ELSE IF t[i + 1] \in {34, 92, 47} THEN ParseStr(i + 2, Append(acc, t[i + 1]))
                ELSE IF t[i + 1] \in {98, 102, 110, 114, 116}
                     THEN ParseStr(i + 2, Append(acc, ControlOf(t[i + 1])))
                ELSE IF t[i + 1] = 117 /\ i + 5 <= Len(t)
                        /\ \A k \in 2..5 : HexVal(t[i + k]) >= 0
                     THEN ParseStr(i + 6,
                                   Append(acc, HexVal(t[i + 2]) * 4096 + HexVal(t[i + 3]) * 256
                                               + HexVal(t[i + 4]) * 16 + HexVal(t[i + 5])))
                ELSE ParseFail
            ELSE IF t[i] < 32 THEN ParseFail
            ELSE ParseStr(i + 1, Append(acc, t[i]))

        RECURSIVE ParseInt(_, _)
        ParseInt(i, n) ==
            IF i <= Len(t) /\ t[i] \in 48..57 THEN ParseInt(i + 1, 10 * n + (t[i] - 48))
            ELSE [ok |-> TRUE, v |-> <<0, n>>, i |-> i]

        HasAt(i, lit) == i + Len(lit) - 1 <= Len(t) /\ SubSeq(t, i, i + Len(lit) - 1) = lit

        ParseValue(i) ==
            IF i > Len(t) THEN ParseFail
            ELSE IF t[i] = 34 THEN
                LET r == ParseStr(i + 1, <<>>)
                IN  IF r.ok THEN [r EXCEPT !.v = <<1>> \o r.v] ELSE ParseFail
            ELSE IF t[i] = 48 THEN [ok |-> TRUE, v |-> <<0, 0>>, i |-> i + 1]
            ELSE IF t[i] \in 49..57 THEN ParseInt(i, 0)
            ELSE IF HasAt(i, <<116, 114, 117, 101>>)
                 THEN [ok |-> TRUE, v |-> <<2, 1>>, i |-> i + 4]
            ELSE IF HasAt(i, <<102, 97, 108, 115, 101>>)
                 THEN [ok |-> TRUE, v |-> <<2, 0>>, i |-> i + 5]
            ELSE IF HasAt(i, <<110, 117, 108, 108>>)
                 THEN [ok |-> TRUE, v |-> <<3>>, i |-> i + 4]
            ELSE ParseFail

        \* the members of an object, i at the quote of the next key
        RECURSIVE ParseItems(_, _)
        ParseItems(i, acc) ==
            IF i > Len(t) \/ t[i] # 34 THEN ParseFail
            ELSE
              LET k == ParseStr(i + 1, <<>>)
                  c == SkipWs(k.i)
              IN  IF ~k.ok \/ c > Len(t) \/ t[c] # 58 THEN ParseFail
                  ELSE
                    LET v == ParseValue(SkipWs(c + 1))
                        e == SkipWs(v.i)
                    IN  IF ~v.ok \/ e > Len(t) THEN ParseFail
                        ELSE IF t[e] = 125
                             THEN [ok |-> TRUE, v |-> DictSet(acc, k.v, v.v), i |-> e + 1]
                        ELSE IF t[e] = 44
                             THEN ParseItems(SkipWs(e + 1), DictSet(acc, k.v, v.v))
                        ELSE ParseFail
        i0 == SkipWs(1)
    IN  IF i0 > Len(t) \/ t[i0] # 123 THEN ParseFail
        ELSE
          LET j == SkipWs(i0 + 1)
              r == IF j <= Len(t) /\ t[j] = 125
                   THEN [ok |-> TRUE, v |-> <<>>, i |-> j + 1]
                   ELSE ParseItems(j, <<>>)
          IN  IF r.ok /\ SkipWs(r.i) = Len(t) + 1 THEN r ELSE ParseFail

\* --- the transport
\* A socket whose peer has sent data and closed: pos bytes are consumed, and the
\* j-th recv delivers at most pat[j] bytes (the pattern repeats); asked lists the
\* sizes the receive paths have asked the transport for.
MaxLength == 100 * 1024 * 1024
chunk_size == 256 * 1024

\* sock.recv(k)
sock_recv(s, k) ==
    LET n == Min({k, s.pat[s.j], Len(s.data) - s.pos})
    IN  [sock |-> [s EXCEPT !.pos = @ + n, !.j = (s.j % Len(s.pat)) + 1],
         data |-> SubSeq(s.data, s.pos + 1, s.pos + n)]

\* a receive that takes what the first recv delivers
BadRecvExactLoop(st, n) == sock_recv(st.sock, Min({chunk_size, n}))

\* the loop of _recv_exact
RECURSIVE RecvExactLoop(_, _)
RecvExactLoop(st, n) ==
    IF Len(st.data) < n
    THEN LET r == sock_recv(st.sock, Min({chunk_size, n - Len(st.data)}))
         IN  IF r.data = <<>> THEN st
             ELSE RecvExactLoop([sock |-> r.sock, data |-> st.data \o r.data], n)
    ELSE st

recv_exact(s, n) == RecvExactLoop([sock |-> [s EXCEPT !.asked = Append(@, n)], data |-> <<>>], n)

\* StreamReader.readexactly(n): n bytes, or IncompleteReadError (ok FALSE) at EOF
readexactly(s, n) ==
    IF Len(s.data) - s.pos >= n
    THEN [ok |-> TRUE, sock |-> [s EXCEPT !.pos = @ + n, !.asked = Append(@, n)],
          data |-> SubSeq(s.data, s.pos + 1, s.pos + n)]
    ELSE [ok |-> FALSE, sock |-> [s EXCEPT !.pos = Len(s.data), !.asked = Append(@, n)],
          data |-> SubSeq(s.data, s.pos + 1, Len(s.data))]

Returned(s, kind, msg) == [sock |-> s, kind |-> kind, msg |-> msg]

\* payload.decode('utf-8') then json.loads, with the exception each raises
DecodePayload(s, payload) ==
    LET u == Utf8Decode(payload) IN
    IF ~u.ok THEN Returned(s, "UnicodeDecodeError", <<>>)
    ELSE LET j == json_loads(u.v)
         IN  IF j.ok THEN Returned(s, "msg", j.v)
             ELSE Returned(s, "JSONDecodeError", <<>>)

\* messages.recv_message: kind is "msg", "None" or the exception that leaves it
recv_message(s) ==
    LET h == recv_exact(s, 4) IN
    IF h.data = <<>> THEN Returned(h.sock, "None", <<>>)
    ELSE IF Len(h.data) # 4 THEN Returned(h.sock, "struct.error", <<>>)
    ELSE
      LET length == struct_unpack(h.data) IN
      IF length > MaxLength THEN Returned(h.sock, "ProtocolError", <<>>)
      ELSE
        LET p == recv_exact(h.sock, length) IN
        IF Len(p.data) # length THEN Returned(p.sock, "ProtocolError", <<>>)
        ELSE LET d == DecodePayload(p.sock, p.data)
             IN  IF d.kind = "JSONDecodeError"
                 THEN Returned(p.sock, "ProtocolError", <<>>)
                 ELSE d

\* ClientHandler._recv_message: IncompleteReadError and every other exception
\* become None
ClientHandler_recv_message(s) ==
    LET h == readexactly(s, 4) IN
    IF ~h.ok THEN Returned(h.sock, "None", <<>>)
    ELSE
      LET p == readexactly(h.sock, struct_unpack(h.data)) IN
      IF ~p.ok THEN Returned(p.sock, "None", <<>>)
      ELSE LET d == DecodePayload(p.sock, p.data)
           IN  IF d.kind = "msg" THEN d ELSE Returned(p.sock, "None", <<>>)

\* client_async.recv_message_async
recv_message_async(s) ==
    LET h == readexactly(s, 4) IN
    IF ~h.ok THEN Returned(h.sock, "None", <<>>)
    ELSE IF h.data = <<>> THEN Returned(h.sock, "None", <<>>)
    ELSE
      LET p == readexactly(h.sock, struct_unpack(h.data)) IN
      IF ~p.ok THEN Returned(p.sock, "None", <<>>)
      ELSE LET d == DecodePayload(p.sock, p.data)
           IN  IF d.kind = "msg" THEN d ELSE Returned(p.sock, "None", <<>>)

\* --- the runs
SeqsUpTo(S, n) == UNION {[1..k -> S] : k \in 0..n}

RECURSIVE SendAll(_)
SendAll(ms) == IF ms = <<>> THEN <<>> ELSE send_message(Head(ms)) \o SendAll(Tail(ms))

\* frames no send_message produces: a length above the bound, a length at the
\* bound, a payload that is not JSON, a payload that is not UTF-8
BadFrames ==
    { <<7, 0, 0, 0, 123>>, <<6, 64, 0, 0, 123>>, <<0, 0, 0, 1, 123>>, <<0, 0, 0, 1, 255>> }

\* what follows the last whole message: nothing, a frame cut short by the close,
\* or one of the frames above
Tails ==
    {<<>>} \cup BadFrames
    \cup UNION {{SubSeq(send_message(m), 1, k) : k \in 1..(Len(send_message(m)) - 1)}
                : m \in Messages}

ChunkPatterns == (SeqsUpTo(1..MaxChunk, 2) \ {<<>>}) \cup {<<chunk_size>>}

InitProto ==
    /\ \E w \in SeqsUpTo(Messages, MaxMsgs), tl \in Tails, p \in ChunkPatterns :
         fn_arg = [data |-> SendAll(w) \o tl, pos |-> 0, pat |-> p, j |-> 1,
                   asked |-> <<>>, sent |-> w]
    /\ fn_out = <<>>
    /\ IdleBuf /\ IdleCol /\ IdleWk /\ IdleSess /\ IdleMet /\ IdleSse /\ IdleEv /\ IdleMore

\* a receive loop stays on one path and goes on while it gets messages
CanReceive(path) ==
    /\ Len(fn_out) <= Len(fn_arg.sent)
    /\ fn_out # <<>> =>
         fn_out[Len(fn_out)].path = path /\ fn_out[Len(fn_out)].kind = "msg"

Receive(path, r) ==
    /\ CanReceive(path)
    /\ fn_arg' = r.sock
    /\ fn_out' = Append(fn_out, [path |-> path, kind |-> r.kind, msg |-> r.msg,
                                 at |-> fn_arg.pos])
    /\ UNCHANGED notFun

CallRecvMessage == Receive("recv_message", recv_message(fn_arg))
CallServerRecvMessage == Receive("_recv_message", ClientHandler_recv_message(fn_arg))
CallRecvMessageAsync == Receive("recv_message_async", recv_message_async(fn_arg))

NextProto == CallRecvMessage \/ CallServerRecvMessage \/ CallRecvMessageAsync

SpecProto == InitProto /\ [][NextProto]_vars

\* the bytes of the stream that a call found unread
Unread(o) == SubSeq(fn_arg.data, o.at + 1, Len(fn_arg.data))

\* C25: recv_message returns None only when the peer closed before any byte of a
\* length prefix; otherwise it returns the message or raises ProtocolError, and
\* it raises ProtocolError for a prefix cut short after 1 to 3 bytes
C25_RecvMessageContract ==
    \A i \in 1..Len(fn_out) :
      fn_out[i].path = "recv_message" =>
        /\ fn_out[i].kind \in {"msg", "None", "ProtocolError"}
        /\ fn_out[i].kind = "None" => Unread(fn_out[i]) = <<>>
        /\ Len(Unread(fn_out[i])) \in 1..3 => fn_out[i].kind = "ProtocolError"

\* C26: on every receive path a frame whose length prefix exceeds the bound is
\* rejected and no read of that many bytes is asked of the transport
C26_OversizeRejectedUnread ==
    \A i \in 1..Len(fn_out) :
      (Len(Unread(fn_out[i])) >= 4
         /\ struct_unpack(SubSeq(Unread(fn_out[i]), 1, 4)) > MaxLength)
        => /\ fn_out[i].kind # "msg"
           /\ \A k \in 1..Len(fn_arg.asked) : fn_arg.asked[k] <= MaxLength

MaxSamples == 3     \* latencies recorded before the query
MaxLatency == 3     \* largest latency recorded, in ms

\* the percentiles asked for: those of get_summary, the ends of the documented
\* range, and numbers outside it
Percentiles == {-250, -150, -50, 0, 50, 95, 99, 100, 150}

\* int(a / b) for b > 0: the fraction is dropped, towards zero
IntOf(a, b) == IF a >= 0 THEN a \div b ELSE -((-a) \div b)

\* sorted(list)
sorted(l) ==
    LET RECURSIVE Insert(_, _)
        Insert(s, x) ==
            IF s = <<>> THEN <<x>>
            ELSE IF x <= Head(s) THEN <<x>> \o s
            ELSE <<Head(s)>> \o Insert(Tail(s), x)
        RECURSIVE Sort(_)
        Sort(s) == IF s = <<>> THEN <<>> ELSE Insert(Sort(Tail(s)), Head(s))
    IN  Sort(l)

\* a[i] of a Python list, i counted from 0 and a negative i from the end
ListIndex(a, i) == IF i >= 0 THEN i + 1 ELSE Len(a) + i + 1

\* get_percentile; the value is kept in hundredths (v100) so that the products
\* with the fractions of k are exact
get_percentile(latencies, percentile) ==
    IF latencies = <<>> THEN [kind |-> "value", v100 |-> 0]
    ELSE
      LET sorted_latencies == sorted(latencies)
          k100 == (Len(sorted_latencies) - 1) * percentile
          f == IntOf(k100, 100)
          c == f + 1
      IN  IF c >= Len(sorted_latencies)
          THEN [kind |-> "value", v100 |-> 100 * sorted_latencies[Len(sorted_latencies)]]
          ELSE IF ListIndex(sorted_latencies, f) < 1
               THEN [kind |-> "IndexError", v100 |-> 0]
          ELSE [kind |-> "value",
                v100 |-> sorted_latencies[ListIndex(sorted_latencies, f)] * (c * 100 - k100)
                         + sorted_latencies[ListIndex(sorted_latencies, c)] * (k100 - f * 100)]

InitPercentile ==
    /\ \E l \in SeqsUpTo(1..MaxLatency, MaxSamples), p \in Percentiles :
         fn_arg = [latencies |-> l, percentile |-> p]
    /\ fn_out = <<>>
    /\ IdleBuf /\ IdleCol /\ IdleWk /\ IdleSess /\ IdleMet /\ IdleSse /\ IdleEv /\ IdleMore

CallGetPercentile ==
    /\ fn_out = <<>>
    /\ fn_out' = <<get_percentile(fn_arg.latencies, fn_arg.percentile)>>
    /\ UNCHANGED <<fn_arg, notFun>>

NextPercentile == CallGetPercentile

SpecPercentile == InitPercentile /\ [][NextPercentile]_vars

Sample == {fn_arg.latencies[i] : i \in 1..Len(fn_arg.latencies)}

\* C28: get_percentile returns 0 on an empty sample; on a non-empty one, for any
\* p, a value between the minimum and the maximum of the sample, the minimum for
\* p = 0 and the maximum for p = 100
C28_PercentileWithinSample ==
    fn_out # <<>> =>
      /\ fn_out[1].kind = "value"
      /\ fn_arg.latencies = <<>> => fn_out[1].v100 = 0
      /\ fn_arg.latencies # <<>> =>
           /\ \E lo \in Sample : 100 * lo <= fn_out[1].v100
           /\ \E hi \in Sample : fn_out[1].v100 <= 100 * hi
           /\ fn_arg.percentile = 0 => \A x \in Sample : fn_out[1].v100 <= 100 * x
           /\ fn_arg.percentile = 100 => \A x \in Sample : fn_out[1].v100 >= 100 * x

\* ------------------------------------------------------------------ client: send_video and main
MaxItems == 3       \* what the server sends before it closes, in units

\* what a server can put on the stream in one go: the ack, a progress message, a
\* result with its bytes (whole, short, or none before the close), a result with
\* ok false, an error message, a message of a type the client does not know
StreamUnits ==
    { <<HandshakeAck>>,
      <<Msg("progress", "", 0, 1)>>,
      <<Msg("result", "", 2, 0), Msg("raw", "", 2, 0)>>,
      <<Msg("result", "", 2, 0), Msg("raw", "", 1, 0)>>,
      <<Msg("result", "", 2, 0)>>,
      <<[Msg("result", "", 0, 0) EXCEPT !.ok = FALSE]>>,
      <<ErrorMsg("PROCESSING_ERROR")>>,
      <<Msg("other_type", "", 0, 0)>> }

\* the units after which the stream ends: the server stopped inside the bytes of
\* the file (recv_bytes would otherwise go on into the bytes of the next unit)
CutShort == {<<Msg("result", "", 2, 0), Msg("raw", "", 1, 0)>>, <<Msg("result", "", 2, 0)>>}

RECURSIVE Flatten(_)
Flatten(ss) == IF ss = <<>> THEN <<>> ELSE Head(ss) \o Flatten(Tail(ss))

\* the client is connected and has sent its handshake; the server's whole output
\* is on the stream and the server has closed
InitClient ==
    /\ pc = "off" /\ first_msg = "handshake" /\ conn_up = TRUE /\ closed = TRUE
    /\ \E units \in SeqsUpTo(StreamUnits, MaxItems) :
         /\ \A i \in 1..(Len(units) - 1) : units[i] \notin CutShort
         /\ sent = Flatten(units)
    /\ client = NewClient("await_ack")
    /\ handshake = "none" /\ raised = <<>>
    /\ IdleStore /\ IdlePipe /\ IdleBuf /\ IdleCol /\ IdleWk /\ IdleMet /\ IdleExt

\* Ctrl-C while send_video runs
ClientInterrupt ==
    /\ client.pc \in {"await_ack", "reading", "recv_bytes"}
    /\ client' = [client EXCEPT !.pc = "done", !.ret = "KeyboardInterrupt"]
    /\ UNCHANGED clientUnchanged

\* a main that exits 0 on every result message
BadExitCode(status) == IF status \in {"result", "result_not_ok"} THEN 0 ELSE 1
\* main: sys.exit(0) when send_video returned a dict with ok true, sys.exit(1)
\* when it returned another dict or raised (KeyboardInterrupt or Exception)
ExitCode(status) == IF status = "result" THEN 0 ELSE 1

ClientExit ==
    /\ client.pc = "done"
    /\ client' = [client EXCEPT !.pc = "exited", !.exit = ExitCode(client.ret)]
    /\ UNCHANGED clientUnchanged

NextClient ==
    \/ ClientRecvAck
    \/ ClientRecvMessage
    \/ ClientRecvBytes
    \/ ClientSeesClose
    \/ ClientInterrupt
    \/ ClientExit

SpecClient == InitClient /\ [][NextClient]_vars

\* C30: the loop consumes no result or error message before the one it ends at;
\* exit 0 means an ok result whose size_bytes were all read and written; an error
\* message, a result with ok false, a closed connection, an exception or an
\* interrupt gives exit 1
C30_ClientExitCodes ==
    /\ \A k \in 1..(client.pos - 1) :
         sent[k].type \in {"result", "error"} =>
           /\ k = client.pos - 1 /\ sent[k].type = "result" /\ sent[k].ok
           /\ sent[client.pos].type = "raw"
    /\ client.pc = "exited" =>
         /\ client.exit \in {0, 1}
         /\ client.exit = 0 =>
              /\ client.wrote /\ client.ret = "result"
              /\ client.got = sent[client.pos - 1].size_bytes
         /\ client.ret \in {"error", "result_not_ok", "closed", "rejected",
                            "ProtocolError", "KeyboardInterrupt"} => client.exit = 1
         /\ (client.pos >= 1 /\ sent[client.pos].type = "error") => client.exit = 1
         /\ (client.pos >= 1 /\ sent[client.pos].type = "result") => client.exit = 1
    /\ client.wrote => client.ret = "result"

\* the client read the ack and a progress message, then the result and its
\* bytes, and exited 0
C30_Witness ==
    /\ client.pc = "exited" /\ client.exit = 0 /\ client.wrote
    /\ client.pos = 4 /\ sent[2].type = "progress"

\* ------------------------------------------------------------------ start_server: the listening sockets
MaxAddrs == 3       \* entries getaddrinfo returns

Families == {"AF_INET", "AF_INET6"}

\* the calls made on the socket of one family, in the order of the try block
SocketSteps(fam) ==
    IF fam = "AF_INET6"
    THEN <<"socket", "SO_REUSEADDR", "IPV6_V6ONLY", "bind", "listen", "start_server">>
    ELSE <<"socket", "SO_REUSEADDR", "bind", "listen", "start_server">>

\* one entry per entry of getaddrinfo
BadGroupByFamily(addrinfos) == addrinfos
\* addr_by_family: the first entry of each family, in the order of first appearance
GroupByFamily(addrinfos) ==
    LET RECURSIVE Group(_, _)
        Group(i, acc) ==
            IF i > Len(addrinfos) THEN acc
            ELSE IF \E k \in 1..Len(acc) : acc[k] = addrinfos[i] THEN Group(i + 1, acc)
            ELSE Group(i + 1, Append(acc, addrinfos[i]))
    IN  Group(1, <<>>)

\* fn_arg: what the host gives (the families getaddrinfo lists, whether it raises
\* gaierror, and per family the call that raises OSError, "none" if none does)
InitListen ==
    /\ \E a \in SeqsUpTo(Families, MaxAddrs), g \in BOOLEAN,
          f4 \in {"none", "socket", "bind", "listen"},
          f6 \in {"none", "socket", "IPV6_V6ONLY", "bind"} :
         fn_arg = [addrinfos |-> a, gaierror |-> g,
                   fails |-> [AF_INET |-> f4, AF_INET6 |-> f6]]
    /\ fn_out = <<>>
    /\ IdleBuf /\ IdleCol /\ IdleWk /\ IdleSess /\ IdleMet /\ IdleSse /\ IdleEv /\ IdleMore

\* socket.getaddrinfo and the grouping by family
ResolveAddresses ==
    /\ fn_out = <<>>
    /\ fn_out' = IF fn_arg.gaierror
                 THEN [pc |-> "done", families |-> <<>>, i |-> 1, servers |-> <<>>,
                       calls |-> <<>>, raised |-> "gaierror"]
                 ELSE [pc |-> "loop", families |-> GroupByFamily(fn_arg.addrinfos),
                       i |-> 1, servers |-> <<>>, calls |-> <<>>, raised |-> "none"]
    /\ UNCHANGED <<fn_arg, notFun>>

\* one turn of the loop over addr_by_family: the calls up to the one that raises
\* OSError (caught: warning, continue), or all of them and servers.append
CreateServer ==
    /\ fn_out # <<>> /\ fn_out.pc = "loop" /\ fn_out.i <= Len(fn_out.families)
    /\ LET fam == fn_out.families[fn_out.i]
           steps == SocketSteps(fam)
           bad == fn_arg.fails[fam]
           n == IF \E k \in 1..Len(steps) : steps[k] = bad
                THEN CHOOSE k \in 1..Len(steps) : steps[k] = bad
                ELSE Len(steps) + 1
           made == [k \in 1..(IF n > Len(steps) THEN Len(steps) ELSE n) |-> <<fam, steps[k]>>]
       IN  fn_out' = [fn_out EXCEPT !.i = @ + 1,
                                    !.calls = @ \o made,
                                    !.servers = IF n > Len(steps) THEN Append(@, fam) ELSE @]
    /\ UNCHANGED <<fn_arg, notFun>>

\* after the loop: RuntimeError without a server, serve_forever on each otherwise
FinishStart ==
    /\ fn_out # <<>> /\ fn_out.pc = "loop" /\ fn_out.i > Len(fn_out.families)
    /\ fn_out' = IF fn_out.servers = <<>>
                 THEN [fn_out EXCEPT !.pc = "done", !.raised = "RuntimeError"]
                 ELSE [fn_out EXCEPT !.pc = "serving"]
    /\ UNCHANGED <<fn_arg, notFun>>

NextListen == ResolveAddresses \/ CreateServer \/ FinishStart

SpecListen == InitListen /\ [][NextListen]_vars

\* the positions in the calls made so far of call c on the socket of family fam
CallsOf(fam, c) == {k \in 1..Len(fn_out.calls) : fn_out.calls[k] = <<fam, c>>}

\* C31: at most one socket per family is created and listened on; the IPv6
\* socket gets IPV6_V6ONLY before its bind; a family whose calls all succeed is
\* served whatever happened to the other; RuntimeError is raised only when no
\* server was created
C31_OneSocketPerFamily ==
    fn_out # <<>> =>
      /\ \A fam \in Families :
           /\ Cardinality(CallsOf(fam, "socket")) <= 1
           /\ Cardinality(CallsOf(fam, "listen")) <= 1
      /\ \A b \in CallsOf("AF_INET6", "bind") :
           \E v \in CallsOf("AF_INET6", "IPV6_V6ONLY") : v < b
      /\ CallsOf("AF_INET", "IPV6_V6ONLY") = {}
      /\ fn_out.pc \in {"serving", "done"} /\ ~fn_arg.gaierror =>
           /\ \A fam \in Families :
                (fn_arg.fails[fam] = "none"
                   /\ \E k \in 1..Len(fn_arg.addrinfos) : fn_arg.addrinfos[k] = fam)
                  => \E k \in 1..Len(fn_out.servers) : fn_out.servers[k] = fam
           /\ fn_out.raised = "RuntimeError" <=> fn_out.servers = <<>>
           /\ fn_out.pc = "serving" <=> fn_out.servers # <<>>

\* getaddrinfo listed IPv6 first and twice, its bind failed, and the server
\* serves on IPv4 alone
C31_Witness ==
    /\ fn_out # <<>> /\ fn_out.pc = "serving"
    /\ fn_arg.addrinfos = <<"AF_INET6", "AF_INET", "AF_INET6">>
    /\ fn_arg.fails["AF_INET6"] = "bind"
    /\ fn_out.servers = <<"AF_INET">>

\* ------------------------------------------------------------------ TP2: common/protocol.py
\* A byte string is kept as its first bytes and the number of b'X' bytes that
\* follow them, so that strings around the size limit can be written down.
MaxPrefix == 2      \* bytes of a message written out one by one
HEADER_SIZE == 4
MAX_MESSAGE_SIZE == 10 * 1024 * 1024

BytesLen(d) == Len(d.bytes) + d.pad

\* an encoder without the size check
BadEncodeMessage(data) ==
    [kind |-> "bytes", bytes |-> struct_pack(BytesLen(data)) \o data.bytes, pad |-> data.pad]
\* encode_message: header + data, ProtocolError above MAX_MESSAGE_SIZE
encode_message(data) ==
    IF BytesLen(data) > MAX_MESSAGE_SIZE
    THEN [kind |-> "ProtocolError", bytes |-> <<>>, pad |-> 0]
    ELSE [kind |-> "bytes", bytes |-> struct_pack(BytesLen(data)) \o data.bytes,
          pad |-> data.pad]

\* decode_header
decode_header(header) ==
    IF Len(header) # HEADER_SIZE THEN [kind |-> "ProtocolError", value |-> 0]
    ELSE IF struct_unpack(header) > MAX_MESSAGE_SIZE
         THEN [kind |-> "ProtocolError", value |-> 0]
    ELSE [kind |-> "int", value |-> struct_unpack(header)]

\* the byte strings encoded: short ones, lengths that carry into the second
\* header byte, and lengths at and around the limit
DataSamples ==
    [bytes : SeqsUpTo({0, 88, 255}, MaxPrefix),
     pad : {0, 254, 255, MAX_MESSAGE_SIZE - 2, MAX_MESSAGE_SIZE - 1, MAX_MESSAGE_SIZE,
            MAX_MESSAGE_SIZE + 1}]

\* the headers decoded: 0 to 5 bytes; 0, 160, 0, 0 is MAX_MESSAGE_SIZE. The first
\* byte stays below 128 so that the length stays within 32-bit integers
HeaderSamples == {h \in SeqsUpTo({0, 1, 127, 160, 255}, 4) : h = <<>> \/ h[1] <= 127}
                   \cup {<<0, 160, 0, 0, 0>>, <<0, 0, 0, 0, 1>>}

InitTP2 ==
    /\ \E d \in DataSamples, h \in HeaderSamples : fn_arg = [data |-> d, header |-> h]
    /\ fn_out = <<>>
    /\ IdleBuf /\ IdleCol /\ IdleWk /\ IdleSess /\ IdleMet /\ IdleSse /\ IdleEv /\ IdleMore

\* encoded = encode_message(data)
CallEncodeMessage ==
    /\ fn_out = <<>>
    /\ fn_out' = <<[call |-> "encode_message", r |-> encode_message(fn_arg.data)]>>
    /\ UNCHANGED <<fn_arg, notFun>>

\* decode_header(encoded[:HEADER_SIZE]) after an encode, as the receivers do
CallDecodeEncoded ==
    /\ Len(fn_out) = 1 /\ fn_out[1].call = "encode_message" /\ fn_out[1].r.kind = "bytes"
    /\ fn_out' = Append(fn_out, [call |-> "decode_header",
                                 r |-> decode_header(SubSeq(fn_out[1].r.bytes, 1, HEADER_SIZE))])
    /\ UNCHANGED <<fn_arg, notFun>>

\* decode_header(header) on bytes read from a peer
CallDecodeHeader ==
    /\ fn_out = <<>>
    /\ fn_out' = <<[call |-> "decode_header", r |-> decode_header(fn_arg.header)]>>
    /\ UNCHANGED <<fn_arg, notFun>>

NextTP2 == CallEncodeMessage \/ CallDecodeEncoded \/ CallDecodeHeader

SpecTP2 == InitTP2 /\ [][NextTP2]_vars

\* C32: up to MAX_MESSAGE_SIZE bytes, encode_message(d) is the four bytes of
\* len(d), most significant first, followed by d, and decode_header of them gives
\* len(d); above it encode_message raises ProtocolError; decode_header raises
\* ProtocolError for a header that is not 4 bytes or holds a larger length
C32_HeaderRoundTrip ==
    /\ (fn_out # <<>> /\ fn_out[1].call = "encode_message") =>
         LET n == BytesLen(fn_arg.data)
             e == fn_out[1].r
         IN  IF n > MAX_MESSAGE_SIZE THEN e.kind = "ProtocolError"
             ELSE /\ e.kind = "bytes"
                  /\ Len(e.bytes) = 4 + Len(fn_arg.data.bytes) /\ e.pad = fn_arg.data.pad
                  /\ \A k \in 1..4 : e.bytes[k] \in 0..255
                  /\ e.bytes[1] * 16777216 + e.bytes[2] * 65536 + e.bytes[3] * 256
                       + e.bytes[4] = n
                  /\ SubSeq(e.bytes, 5, Len(e.bytes)) = fn_arg.data.bytes
                  /\ Len(fn_out) = 2 =>
                       fn_out[2].r = [kind |-> "int", value |-> n]
    /\ (fn_out # <<>> /\ fn_out[1].call = "decode_header") =>
         LET h == fn_arg.header
             v == h[1] * 16777216 + h[2] * 65536 + h[3] * 256 + h[4]
         IN  IF Len(h) # 4 THEN fn_out[1].r.kind = "ProtocolError"
             ELSE IF v > 10485760 THEN fn_out[1].r.kind = "ProtocolError"
             ELSE fn_out[1].r = [kind |-> "int", value |-> v]

\* a message of exactly MAX_MESSAGE_SIZE bytes was encoded and its header decoded
C32_Witness ==
    /\ Len(fn_out) = 2 /\ BytesLen(fn_arg.data) = MAX_MESSAGE_SIZE
    /\ Len(fn_arg.data.bytes) = 2
    /\ fn_out[2].r.value = 10485760

\* ------------------------------------------------------------------ session: the awaiting phase step by step
\* the uploads of the runs below: openable, every declared frame decodes and is
\* published
AwaitVideos ==
    {v \in Videos : v.openable /\ v.encfail = {} /\ v.pubfail = {}
                    /\ v.declared = v.decoded /\ v.decoded <= MaxDecoded}

\* handle after _receive_video returned: the ack was sent and read, the upload
\* is on disk
InitAwait ==
    /\ pc = "dispatching"
    /\ first_msg = "handshake" /\ handshake = "handshake"
    /\ conn_up = TRUE /\ closed = FALSE /\ raised = <<>>
    /\ sent = <<HandshakeAck>>
    /\ client = [NewClient("await_ack") EXCEPT !.pc = "reading", !.pos = 1]
    \* Redis unreachable: the session runs without its status store
    /\ redis_up = FALSE /\ store = <<>> /\ redis_raised = FALSE
    /\ video \in AwaitVideos
    /\ queue = <<>> /\ tasks = <<>> /\ original_frames = <<>> /\ video_props = <<>>
    /\ all_results = <<>> /\ files = <<>> /\ metrics = <<>> /\ records = <<>>
    /\ result = <<>> /\ out_file = <<>>
    /\ cvOpens \in BOOLEAN /\ cvRaises = {}
    /\ vfb = <<>> /\ ret = 0 /\ hist = <<>>
    /\ IdleCol /\ IdleWk /\ IdleMet /\ IdleExt

\* get_celery_results up to the gather: one wait_for_frame coroutine per task
AwaitStart ==
    /\ pc = "awaiting" /\ mode = "off"
    /\ mode' = "gather"
    /\ frame_numbers' = [k \in 1..Len(tasks) |-> tasks[k].frame_number]
    /\ waited' = [k \in 1..Len(tasks) |-> 0]
    /\ fut' = [k \in 1..Len(tasks) |-> Pending]
    /\ disk' = [n \in 0..(Len(tasks) - 1) |-> Absent]
    /\ UNCHANGED <<callback, results_dict, order, returned, done>>
    /\ UNCHANGED notCol

\* a gather that goes on waiting when one of its waits ended in a timeout
BadAwaitFinish ==
    /\ pc = "awaiting" /\ done
    /\ \A k \in DOMAIN returned : returned[k].kind = "result"
    /\ all_results' = returned
    /\ files' = [n \in DOMAIN disk |->
                   [state |-> IF disk[n] >= PngOnly THEN "readable" ELSE "missing",
                    frame |-> MkFrame(<<video_props.height, video_props.width>>, "proc",
                                      tasks[n + 1].src)]]
    /\ pc' = "encoding"
    /\ UNCHANGED <<video, queue, tasks, original_frames, video_props, metrics, records,
                   result, out_file>>
    /\ UNCHANGED <<connVars, storeVars, bufVars, notSess>>
\* all_results = await processor.get_celery_results(tasks, None): the gather
\* returned its list, timeouts included; the files are what the workers left
AwaitFinish ==
    /\ pc = "awaiting" /\ done
    /\ all_results' = returned
    /\ files' = [n \in DOMAIN disk |->
                   [state |-> IF disk[n] >= PngOnly THEN "readable" ELSE "missing",
                    frame |-> MkFrame(<<video_props.height, video_props.width>>, "proc",
                                      tasks[n + 1].src)]]
    /\ pc' = "encoding"
    /\ UNCHANGED <<video, queue, tasks, original_frames, video_props, metrics, records,
                   result, out_file>>
    /\ UNCHANGED <<connVars, storeVars, bufVars, notSess>>

\* the executor job of _process_results_sync has run: the step process_results,
\* told by the positions alone
EncodingEnds == pc = "encoding" /\ pc' = "completed"

\* the next step of handle or of get_celery_results, the encode step apart
HandleStep ==
    \/ DispatchTasks
    \/ SaveMetadata
    \/ AwaitStart
    \/ WaitForFrame
    \/ GetCeleryResultsReturn
    \/ AwaitFinish
    \/ MarkCompleted
    \/ ReadVideoFile
    \/ SendResult
    \/ SendVideo
    \/ HandleException
    \/ CloseConnection

NextAwait ==
    \/ ConnectionLost
    \/ WorkerWrites
    \/ DispatchTasks
    \/ SaveMetadata
    \/ AwaitStart
    \/ WaitForFrame
    \/ GetCeleryResultsReturn
    \/ AwaitFinish
    \/ process_results
    \/ MarkCompleted
    \/ ReadVideoFile
    \/ SendResult
    \/ SendVideo
    \/ HandleException
    \/ CloseConnection

\* the event loop runs the step of handle that is ready (one at a time is) and
\* the executor finishes the encode job; the workers and the peer are free to do
\* nothing
SpecAwait ==
    InitAwait /\ [][NextAwait]_vars /\ WF_vars(HandleStep) /\ WF_pc(EncodingEnds)

TerminalSent == \E k \in 1..Len(sent) : sent[k].type \in {"result", "error"}

\* C33: every wait of the awaiting phase ends after at most PollLimit polls, with
\* the artifact or with a timeout, and a session that reached the awaiting phase
\* gets its list of results, goes on to encoding and in the end has written a
\* result or an error and closed its connection, whether or not a worker ever
\* writes an artifact
C33_AwaitingTerminates ==
    /\ [](\A k \in DOMAIN fut :
            /\ waited[k] <= PollLimit
            /\ fut[k].kind = "TimeoutError" => waited[k] = PollLimit)
    /\ (pc = "awaiting") ~> (pc = "done" /\ done /\ closed /\ TerminalSent)

\* no worker wrote anything, both waits timed out, and the session sent its
\* result and closed
C33_Witness ==
    /\ pc = "done" /\ closed /\ ResultSent
    /\ Len(fut) = MaxDecoded
    /\ \A k \in DOMAIN fut : fut[k].kind = "TimeoutError" /\ disk[k - 1] = Absent

\* ------------------------------------------------------------------ session: terminal messages
\* the positions of sent that hold a result or an error message
TerminalWrites == {k \in 1..Len(sent) : sent[k].type \in {"result", "error"}}

\* C35: a session writes at most one terminal message on its connection: no
\* error message after a result message, and no result after an error message
C35_OneTerminalMessage == Cardinality(TerminalWrites) <= 1

\* ------------------------------------------------------------------ buffer: one write per index
\* the call just made on the buffer
LastCall == hist'[Len(hist')]
Called == Len(hist') = Len(hist) + 1

\* C36: the k-th write to the encoder is the write of index k - 1, so the writes
\* made are those of the indices below next_frame_number, each once; every call
\* only adds writes, as many as it returns, each of them the frame buffered
\* under its index (or, in a flush, a zero frame), so never a frame numbered
\* below the cursor; such a frame, once added, stays in the buffer for good
C36_EachIndexWrittenOnce ==
    /\ [](Len(vfb.writer.calls) = vfb.next_frame_number)
    /\ [][Called =>
            LET old == vfb.writer.calls
                new == vfb'.writer.calls
                buffered == IF LastCall.op = "add"
                            THEN DictSet(vfb.buffer, LastCall.n, LastCall.frame)
                            ELSE vfb.buffer
            IN /\ Len(new) = Len(old) + ret'
               /\ SubSeq(new, 1, Len(old)) = old
               /\ \A j \in (Len(old) + 1)..Len(new) :
                    IF (j - 1) \in DictKeys(buffered)
                    THEN new[j] = DictGet(buffered, j - 1)
                         /\ (j - 1) \notin DictKeys(vfb'.buffer)
                    ELSE LastCall.op = "flush" /\ new[j].kind = "zero"
               /\ (LastCall.op = "add" /\ LastCall.n < vfb.next_frame_number) =>
                    /\ LastCall.n \in DictKeys(vfb'.buffer)
                    /\ LastCall.n < vfb'.next_frame_number
               /\ \A k \in DictKeys(vfb.buffer) :
                    k < vfb.next_frame_number => k \in DictKeys(vfb'.buffer)]_vars

\* index 0 was added twice, the second time below the cursor, and a flush to a
\* total above the cursor followed: one write for index 0, the repeat still buffered
C36_Witness ==
    /\ Len(hist) = 3
    /\ hist[1].op = "add" /\ hist[1].n = 0
    /\ hist[2].op = "add" /\ hist[2].n = 0
    /\ hist[3].op = "flush" /\ hist[3].n = 2
    /\ Len(vfb.writer.calls) = 2 /\ vfb.writer.calls[2].kind = "zero"
    /\ 0 \in DictKeys(vfb.buffer)

\* ------------------------------------------------------------------ upload: client and server around the video
\* VideoClient.send_video (client.py) and VideoClientAsync.send_video
\* (client_async.py) make the same calls in the same order; the connection is two
\* byte streams, u_c2s and u_s2c, whose units are a framed message, a video byte
\* or the end of the stream
MaxUpload == 5      \* bytes of the largest video uploaded

InitUpload ==
    /\ u_cpc = "send_handshake" /\ u_spc = "handshaking"
    /\ u_left \in 0..MaxUpload
    /\ u_c2s = <<>> /\ u_s2c = <<>> /\ u_got = 0
    /\ IdleBuf /\ IdleCol /\ IdleWk /\ IdleSess /\ IdleMet
    /\ IdleSse /\ IdleFun /\ IdleEv /\ IdleDir /\ IdleTp

\* messages.send_message(self.sock, handshake)
ClientSendHandshake ==
    /\ u_cpc = "send_handshake"
    /\ u_c2s' = Append(u_c2s, "handshake")
    /\ u_cpc' = "await_ack"
    /\ UNCHANGED <<u_spc, u_left, u_s2c, u_got, notUp>>

\* ack = messages.recv_message(self.sock); RuntimeError unless it is accepted
ClientReadAck ==
    /\ u_cpc = "await_ack" /\ u_s2c # <<>>
    /\ u_s2c' = Tail(u_s2c)
    /\ u_cpc' = IF Head(u_s2c) = "handshake_ack" THEN "sending" ELSE "failed"
    /\ UNCHANGED <<u_spc, u_left, u_c2s, u_got, notUp>>

\* self.sock.sendall(f.read()) / send_file_async: the next bytes reach the stream
ClientSendVideo ==
    /\ u_cpc = "sending" /\ u_left > 0
    /\ \E k \in 1..u_left :
         /\ u_c2s' = u_c2s \o [j \in 1..k |-> "byte"]
         /\ u_left' = u_left - k
    /\ UNCHANGED <<u_cpc, u_spc, u_s2c, u_got, notUp>>

\* a client that starts to read the replies without closing its write side
BadClientShutdown ==
    /\ u_cpc = "sending" /\ u_left = 0
    /\ u_cpc' = "reading"
    /\ UNCHANGED <<u_spc, u_left, u_c2s, u_s2c, u_got, notUp>>
\* self.sock.shutdown(socket.SHUT_WR) / self.writer.write_eof(), after the last byte
ClientShutdown ==
    /\ u_cpc = "sending" /\ u_left = 0
    /\ u_c2s' = Append(u_c2s, "eof")
    /\ u_cpc' = "reading"
    /\ UNCHANGED <<u_spc, u_left, u_s2c, u_got, notUp>>

\* one turn of the loop that reads the server's messages
ClientReadMessage ==
    /\ u_cpc = "reading" /\ u_s2c # <<>>
    /\ u_s2c' = Tail(u_s2c)
    /\ u_cpc' = IF Head(u_s2c) \in {"result", "error", "eof"} THEN "done" ELSE "reading"
    /\ UNCHANGED <<u_spc, u_left, u_c2s, u_got, notUp>>

\* handshake = await self._recv_message()
ServerReadHandshake ==
    /\ u_spc = "handshaking" /\ u_c2s # <<>>
    /\ u_c2s' = Tail(u_c2s)
    /\ u_spc' = IF Head(u_c2s) = "handshake" THEN "ack" ELSE "invalid_handshake"
    /\ UNCHANGED <<u_cpc, u_left, u_s2c, u_got, notUp>>

\* await self._send_message(ack), or _send_error("INVALID_HANDSHAKE", ...) and return
ServerSendAck ==
    /\ u_spc \in {"ack", "invalid_handshake"}
    /\ IF u_spc = "ack"
       THEN u_s2c' = Append(u_s2c, "handshake_ack") /\ u_spc' = "receiving"
       ELSE u_s2c' = u_s2c \o <<"error", "eof">> /\ u_spc' = "closed"
    /\ UNCHANGED <<u_cpc, u_left, u_c2s, u_got, notUp>>

\* the bytes at the head of the stream, up to the next unit that is not a byte
RECURSIVE BytesAhead(_)
BytesAhead(s) == IF s = <<>> \/ Head(s) # "byte" THEN 0 ELSE 1 + BytesAhead(Tail(s))

\* chunk = await self.reader.read(65536) in _receive_video: some of the bytes
\* that have arrived, or b'' at the end of the stream, which ends the loop
ServerReadVideo ==
    /\ u_spc = "receiving" /\ u_c2s # <<>>
    /\ IF Head(u_c2s) = "byte"
       THEN \E k \in 1..BytesAhead(u_c2s) :
              /\ u_c2s' = SubSeq(u_c2s, k + 1, Len(u_c2s))
              /\ u_got' = u_got + k
              /\ UNCHANGED u_spc
       ELSE /\ u_c2s' = Tail(u_c2s)
            /\ u_spc' = "dispatching"
            /\ UNCHANGED u_got
    /\ UNCHANGED <<u_cpc, u_left, u_s2c, notUp>>

\* dispatch, wait, encode: then the result or an error, and writer.close()
ServerFinish ==
    /\ u_spc = "dispatching"
    /\ \E m \in {"result", "error"} : u_s2c' = u_s2c \o <<m, "eof">>
    /\ u_spc' = "closed"
    /\ UNCHANGED <<u_cpc, u_left, u_c2s, u_got, notUp>>

NextUpload ==
    \/ ClientSendHandshake
    \/ ClientReadAck
    \/ ClientSendVideo
    \/ ClientShutdown
    \/ ClientReadMessage
    \/ ServerReadHandshake
    \/ ServerSendAck
    \/ ServerReadVideo
    \/ ServerFinish

SpecUpload == InitUpload /\ [][NextUpload]_vars

\* the server is in reader.read with nothing to read
ServerWaitsForVideo == u_spc = "receiving" /\ u_c2s = <<>>
\* the client is in recv_message with nothing to read
ClientWaitsForMessage == u_cpc \in {"await_ack", "reading"} /\ u_s2c = <<>>
VideoBytesWritten == u_got > 0 \/ \E k \in 1..Len(u_c2s) : u_c2s[k] = "byte"
HalfClosed == u_spc \in {"dispatching", "closed"} \/ \E k \in 1..Len(u_c2s) : u_c2s[k] = "eof"

\* C34: the client writes no video byte before it has read the handshake_ack; it
\* closes its write side after the last video byte and before it waits for any
\* further message; the server leaves the receive loop only at the end of the
\* stream, with every byte read; and the server never waits for video bytes
\* while the client waits for a message
C34_NoUploadDeadlock ==
    /\ u_cpc \in {"send_handshake", "await_ack"} => ~VideoBytesWritten
    /\ u_cpc \in {"sending", "failed"} => ~HalfClosed
    /\ u_cpc \in {"reading", "done"} => (HalfClosed /\ u_left = 0)
    /\ u_spc \in {"dispatching", "closed"} =>
         (u_cpc \in {"reading", "done"} /\ u_c2s = <<>>)
    /\ ~(ServerWaitsForVideo /\ ClientWaitsForMessage)

\* the largest upload was read to its end and the client waits for the result
\* that the server, now dispatching, owes it
C34_Witness ==
    /\ u_spc = "dispatching" /\ u_got = MaxUpload
    /\ u_cpc = "reading" /\ u_s2c = <<>>

\* ------------------------------------------------------------------ artifacts: the frames directory of a session id
\* session_id is str(uuid.uuid4())[:8]: two sessions may carry the same id
SessionIds == {"a", "b"}
MaxArtifacts == 1   \* frames of each session
FrameIndices == 0..(MaxArtifacts - 1)
NoArtifact == [by |-> 0, at |-> 0]
WaitPending == [by |-> 0, at |-> -1]
WaitTimedOut == [by |-> 0, at |-> -2]
EmptyDir == [i \in FrameIndices |-> NoArtifact]

InitDirs ==
    /\ a_clock = 0
    /\ a_sess \in [Sessions -> {[id |-> d, pc |-> "new", began |-> 0, frames |-> MaxArtifacts,
                                 enqueued |-> 0,
                                 got |-> [i \in FrameIndices |-> WaitPending]] :
                                  d \in SessionIds}]
    /\ a_dir = [d \in SessionIds |-> EmptyDir]
    /\ a_queue = {}
    /\ IdleBuf /\ IdleCol /\ IdleWk /\ IdleSess /\ IdleMet
    /\ IdleSse /\ IdleFun /\ IdleEv /\ IdleUp /\ IdleTp

\* a dispatch that only makes sure the directory exists
BadRemoveAndRecreate(dir) == dir
\* if os.path.exists(frames_dir): shutil.rmtree(frames_dir); os.makedirs(frames_dir)
RemoveAndRecreate(dir) == EmptyDir

\* get_celery_results of session s has returned
Gathered(s) ==
    a_sess[s].pc = "awaiting" /\ \A i \in FrameIndices : a_sess[s].got[i] # WaitPending

\* _extract_and_dispatch_frames_sync up to the capture: the directory of the id.
\* The sessions of a run come one after the other; units of work of an earlier
\* one may still be queued
MakeFramesDir(s) ==
    /\ a_sess[s].pc = "new"
    /\ \A r \in Sessions : r < s => Gathered(r)
    /\ a_clock' = a_clock + 1
    /\ a_dir' = [a_dir EXCEPT ![a_sess[s].id] = RemoveAndRecreate(@)]
    /\ a_sess' = [a_sess EXCEPT ![s].pc = "dispatching", ![s].began = a_clock']
    /\ UNCHANGED <<a_queue, notDir>>

\* one turn of the while loop: process_frame.apply_async for the next frame
EnqueueFrame(s) ==
    /\ a_sess[s].pc = "dispatching"
    /\ IF a_sess[s].enqueued < a_sess[s].frames
       THEN /\ a_queue' = a_queue \cup {[sess |-> s, i |-> a_sess[s].enqueued]}
            /\ a_sess' = [a_sess EXCEPT ![s].enqueued = @ + 1]
       ELSE /\ a_sess' = [a_sess EXCEPT ![s].pc = "awaiting"]
            /\ UNCHANGED a_queue
    /\ UNCHANGED <<a_clock, a_dir, notDir>>

\* a worker runs a unit of work: frame_{i}.png and frame_{i}.json in the
\* directory of the session id its metadata names, stamped with the count of
\* dispatches begun so far
WorkerWritesArtifact(t) ==
    /\ t \in a_queue
    /\ a_queue' = a_queue \ {t}
    /\ a_dir' = [a_dir EXCEPT ![a_sess[t.sess].id][t.i] = [by |-> t.sess, at |-> a_clock]]
    /\ UNCHANGED <<a_clock, a_sess, notDir>>

\* wait_for_frame(i) of session s ends: with what the directory holds, or
\* without it at the deadline
WaitEnds(s, i) ==
    /\ a_sess[s].pc = "awaiting" /\ i < a_sess[s].frames
    /\ a_sess[s].got[i] = WaitPending
    /\ a_sess' = [a_sess EXCEPT ![s].got[i] =
                     IF a_dir[a_sess[s].id][i] # NoArtifact
                     THEN a_dir[a_sess[s].id][i] ELSE WaitTimedOut]
    /\ UNCHANGED <<a_clock, a_dir, a_queue, notDir>>

NextDirs ==
    \/ \E s \in Sessions : MakeFramesDir(s)
    \/ \E s \in Sessions : EnqueueFrame(s)
    \/ \E t \in a_queue : WorkerWritesArtifact(t)
    \/ \E s \in Sessions, i \in FrameIndices : WaitEnds(s, i)

SpecDirs == InitDirs /\ [][NextDirs]_vars

Collected(s, i) == a_sess[s].got[i].at > 0

\* C37: a session enqueues its first unit of work only after it has removed and
\* recreated, empty, the directory of its id, and every artifact it collects
\* was written after that, so none is a file an earlier session of the same id
\* left behind
C37_DirectoryClearedBeforeDispatch ==
    /\ [](\A t \in a_queue : a_sess[t.sess].began > 0)
    /\ [][\A s \in Sessions :
            (a_sess[s].pc = "new" /\ a_sess'[s].pc # "new") =>
               /\ a_sess'[s].enqueued = 0
               /\ a_dir'[a_sess[s].id] = EmptyDir]_vars
    /\ [](\A s \in Sessions, i \in FrameIndices :
            Collected(s, i) => a_sess[s].got[i].at >= a_sess[s].began)

\* session 1 left its artifacts in the directory, session 2 came with the same
\* id and collected, for index 0, the artifact of its own unit of work
C37_Witness ==
    /\ a_sess[1].id = a_sess[2].id
    /\ Collected(1, 0) /\ a_sess[1].got[0].at < a_sess[2].began
    /\ Collected(2, 0) /\ a_sess[2].got[0].by = 2

\* ------------------------------------------------------------------ TP1: generator and analyzers
MaxWrites == 2      \* samples the generator writes in a run (NUM_SAMPLES)
PIPE_BUFFER_SIZE == 4096
\* the analyzers, in the order in which the generator writes to their pipes
Analyzers == <<"frecuencia", "presion", "oxigeno">>

KeyTimestamp == <<116, 105, 109, 101, 115, 116, 97, 109, 112>>
\* the dict of sample i: its timestamp (one per second, here the sample number);
\* the readings "frecuencia", "presion" and "oxigeno" are left out
SampleData(i) == << <<KeyTimestamp, <<0, i>>>> >>
\* the result an analyzer puts on its queue for a sample (media and desv left out)
AnalysisResult(tipo, timestamp) == [tipo |-> tipo, timestamp |-> timestamp]

InitPipes ==
    /\ t_gen = [i |-> 1, k |-> 1]
    /\ t_pipe = [a \in 1..3 |-> <<>>]
    /\ t_queue = [a \in 1..3 |-> <<>>]
    /\ t_log = [a \in 1..3 |-> <<>>]
    /\ t_ver = <<>> /\ t_chain = <<>>
    /\ IdleBuf /\ IdleCol /\ IdleWk /\ IdleSess /\ IdleMet
    /\ IdleSse /\ IdleFun /\ IdleEv /\ IdleUp /\ IdleDir

\* os.write(pipe_w, data_str.encode('utf-8')) for the next of the three pipes;
\* after the third, time.sleep(1) and the next sample
GeneratorWrites ==
    /\ t_gen.i <= MaxWrites
    /\ t_pipe' = [t_pipe EXCEPT ![t_gen.k] = @ \o json_dumps(SampleData(t_gen.i))]
    /\ t_gen' = IF t_gen.k < 3 THEN [t_gen EXCEPT !.k = @ + 1]
                ELSE [i |-> t_gen.i + 1, k |-> 1]
    /\ UNCHANGED <<t_queue, t_log, t_ver, t_chain, notTp>>

\* os.read(fd, n): the bytes in the pipe, n of them at most
OsRead(bytes, n) == IF Len(bytes) <= n THEN bytes ELSE SubSeq(bytes, 1, n)

\* one turn of the loop of analyzer_process with the pipe ready: os.read,
\* decode, json.loads, and result_queue.put or the except clause
AnalyzerReads(a) ==
    /\ t_pipe[a] # <<>>
    /\ LET data == OsRead(t_pipe[a], PIPE_BUFFER_SIZE)
           text == Utf8Decode(data)
           full_data == json_loads(text.v)
       IN /\ t_pipe' = [t_pipe EXCEPT ![a] = SubSeq(@, Len(data) + 1, Len(@))]
          /\ IF text.ok /\ full_data.ok
             THEN /\ t_queue' = [t_queue EXCEPT ![a] =
                        Append(@, AnalysisResult(Analyzers[a],
                                                 DictGet(full_data.v, KeyTimestamp)[2]))]
                  /\ t_log' = [t_log EXCEPT ![a] = Append(@, "ok")]
             ELSE /\ t_log' = [t_log EXCEPT ![a] = Append(@, "JSONDecodeError")]
                  /\ UNCHANGED t_queue
    /\ UNCHANGED <<t_gen, t_ver, t_chain, notTp>>

NextPipes ==
    \/ GeneratorWrites
    \/ \E a \in 1..3 : AnalyzerReads(a)

SpecPipes == InitPipes /\ [][NextPipes]_vars

\* samples written so far to the pipe of analyzer a
WrittenTo(a) == IF a < t_gen.k THEN t_gen.i ELSE t_gen.i - 1

\* C39: every sample written to an analyzer's pipe is read as one JSON record and
\* gives one result on that analyzer's queue: no read fails, and once its pipe
\* is empty the queue of an analyzer holds the results of the samples written to
\* it, one each, in order
C39_OneResultPerSample ==
    \A a \in 1..3 :
      /\ \A k \in 1..Len(t_log[a]) : t_log[a][k] = "ok"
      /\ t_pipe[a] = <<>> =>
           t_queue[a] = [k \in 1..WrittenTo(a) |-> AnalysisResult(Analyzers[a], k)]

\* ------------------------------------------------------------------ TP1: verifier
MaxRounds == 2      \* turns of the inner loop before the deadline of a block

\* an empty place of processed_timestamps[timestamp]
NoResult == [tipo |-> "", timestamp |-> 0]
NoResults == [a \in 1..3 |-> NoResult]
\* the verifier at the top of its loop
VerifierWaiting == [pc |-> "get", timestamp |-> 0, data |-> NoResults, k |-> 1, rounds |-> 0]

\* processed_timestamps[timestamp][result["tipo"]] = result
StoreResult(data, res) ==
    LET a == CHOOSE x \in 1..3 : Analyzers[x] = res.tipo
    IN  [data EXCEPT ![a] = res]
\* len(processed_timestamps[timestamp])
Stored(data) == Cardinality({a \in 1..3 : data[a] # NoResult})

InitVerifier ==
    /\ t_gen = [i |-> 1, k |-> 1]
    /\ t_pipe = [a \in 1..3 |-> <<>>]
    /\ t_queue = [a \in 1..3 |-> <<>>]
    /\ t_log = [a \in 1..3 |-> <<>>]
    /\ t_ver = VerifierWaiting
    /\ t_chain = <<>>
    /\ IdleBuf /\ IdleCol /\ IdleWk /\ IdleSess /\ IdleMet
    /\ IdleSse /\ IdleFun /\ IdleEv /\ IdleUp /\ IdleDir

\* result_freq = freq_q.get(timeout=0.1) returns a result: its timestamp is the
\* one of the block being assembled, and the deadline of the block starts
VerifierGet ==
    /\ t_ver.pc = "get"
    /\ t_queue[1] # <<>>
    /\ LET result_freq == Head(t_queue[1])
       IN  t_ver' = [pc |-> "poll", timestamp |-> result_freq.timestamp,
                     data |-> StoreResult(NoResults, result_freq), k |-> 1, rounds |-> 0]
    /\ t_queue' = [t_queue EXCEPT ![1] = Tail(@)]
    /\ UNCHANGED <<t_gen, t_pipe, t_log, t_chain, notTp>>

\* one get_nowait of the inner loop, on freq_q, pres_q and oxy_q in turn; a turn
\* starts only while a result is missing and the deadline has not passed, and the
\* three calls of a started turn are all made
VerifierPoll ==
    /\ t_ver.pc = "poll"
    /\ t_ver.k = 1 => (Stored(t_ver.data) < 3 /\ t_ver.rounds < MaxRounds)
    /\ IF t_queue[t_ver.k] = <<>>
       THEN /\ t_ver' = [t_ver EXCEPT !.k = (@ % 3) + 1,
                                      !.rounds = IF t_ver.k = 3 THEN @ + 1 ELSE @]
            /\ UNCHANGED t_queue
       ELSE /\ t_ver' = [t_ver EXCEPT !.data = StoreResult(@, Head(t_queue[t_ver.k])),
                                      !.k = (@ % 3) + 1,
                                      !.rounds = IF t_ver.k = 3 THEN @ + 1 ELSE @]
            /\ t_queue' = [t_queue EXCEPT ![t_ver.k] = Tail(@)]
    /\ UNCHANGED <<t_gen, t_pipe, t_log, t_chain, notTp>>

\* the inner loop ended with the three results: the block of the timestamp is
\* appended; of a result the block keeps media and desv, which stand here as the
\* result itself
VerifierAppend ==
    /\ t_ver.pc = "poll" /\ t_ver.k = 1
    /\ Stored(t_ver.data) = 3
    /\ t_chain' = Append(t_chain, [timestamp |-> t_ver.timestamp, data |-> t_ver.data])
    /\ t_ver' = VerifierWaiting
    /\ UNCHANGED <<t_gen, t_pipe, t_queue, t_log, notTp>>

\* the deadline passed with a result missing: the results held are discarded
VerifierTimeout ==
    /\ t_ver.pc = "poll" /\ t_ver.k = 1
    /\ Stored(t_ver.data) < 3
    /\ t_ver' = VerifierWaiting
    /\ UNCHANGED <<t_gen, t_pipe, t_queue, t_log, t_chain, notTp>>

NextVerifier ==
    \/ GeneratorWrites
    \/ \E a \in 1..3 : AnalyzerReads(a)
    \/ VerifierGet
    \/ VerifierPoll
    \/ VerifierAppend
    \/ VerifierTimeout

SpecVerifier == InitVerifier /\ [][NextVerifier]_vars

\* C38: every block of the chain combines one frecuencia, one presion and one
\* oxigeno result that all carry the timestamp of the block: a result with
\* another timestamp, dequeued while the block was assembled, is not in it
C38_BlockOfOneTimestamp ==
    \A n \in 1..Len(t_chain) :
      \A a \in 1..3 :
        /\ t_chain[n].data[a].tipo = Analyzers[a]
        /\ t_chain[n].data[a].timestamp = t_chain[n].timestamp

====
